---- MODULE Spec2Model ----
(***************************************************************************)
(* PORTNET incident resolver: the incident parser, the four source         *)
(* parsers (application logs, case log, knowledge base, escalation         *)
(* contacts) and the context gatherer that combines them.                  *)
(*                                                                         *)
(* A Python str is a sequence of one-character strings, so that `in`,      *)
(* lower(), strip() and the regular expressions are computed, not assumed. *)
(***************************************************************************)
EXTENDS Integers, Sequences, FiniteSets, TLC

VARIABLES
    logs_cache,          \* ApplicationLogParser.logs_cache: service -> lines
    cases,               \* CaseLogParser.cases: list of case records
    sections,            \* KnowledgeBaseParser.sections: list of title/content
    content,             \* KnowledgeBaseParser.content: the whole document
    contacts_by_module,  \* EscalationContactsParser.contacts_by_module, in load order
    engine,              \* ContextGatherer construction: "none", "ready", "raised"
    files,               \* the source files ContextGatherer() loads from
    op,                  \* the call being made: its name and arguments
    pc,                  \* "call" before the call has run, "return" after
    result               \* what the call returned

vars == <<logs_cache, cases, sections, content, contacts_by_module, engine, files, op, pc,
         result>>

loaded == <<logs_cache, cases, sections, content, contacts_by_module, engine>>

-----------------------------------------------------------------------------
(* Characters and str methods *)

UpperChars == <<"A","B","C","D","E","F","G","H","I","J","K","L","M",
                "N","O","P","Q","R","S","T","U","V","W","X","Y","Z">>

LowerChars == <<"a","b","c","d","e","f","g","h","i","j","k","l","m",
                "n","o","p","q","r","s","t","u","v","w","x","y","z">>

Range(f) == {f[i] : i \in DOMAIN f}

UpperSet == Range(UpperChars)
LowerSet == Range(LowerChars)
DigitSet == {"0","1","2","3","4","5","6","7","8","9"}
SpaceSet == {" ", "\n", "\t"}
WordSet  == UpperSet \cup LowerSet \cup DigitSet \cup {"_"}

\* str.lower() on one character
LowerChar(c) ==
    IF c \in UpperSet
    THEN LowerChars[CHOOSE i \in DOMAIN UpperChars : UpperChars[i] = c]
    ELSE c

\* the other case of a letter (re.IGNORECASE compares both cases)
UpperChar(c) ==
    IF c \in LowerSet
    THEN UpperChars[CHOOSE i \in DOMAIN LowerChars : LowerChars[i] = c]
    ELSE c

\* str.lower()
Lower(s) == [i \in DOMAIN s |-> LowerChar(s[i])]

\* s[a:b) with 1-based a, clipped like a Python slice
Slice(s, a, b) == SubSeq(s, a, IF b - 1 > Len(s) THEN Len(s) ELSE b - 1)

\* `t in s` for two str
Contains(s, t) ==
    \E i \in 1..(Len(s) - Len(t) + 1) : SubSeq(s, i, i + Len(t) - 1) = t

\* str.strip()
Strip(s) ==
    LET keep == {i \in DOMAIN s : s[i] \notin SpaceSet}
    IN  IF keep = {} THEN <<>>
        ELSE LET lo == CHOOSE i \in keep : \A j \in keep : i <= j
                 hi == CHOOSE i \in keep : \A j \in keep : j <= i
             IN  SubSeq(s, lo, hi)

\* f"{a} {b}"
Join2(a, b) == a \o <<" ">> \o b

RECURSIVE JoinSpace(_)
JoinSpace(ss) ==
    IF ss = <<>> THEN <<>>
    ELSE IF Len(ss) = 1 THEN ss[1]
    ELSE ss[1] \o <<" ">> \o JoinSpace(Tail(ss))

\* the values of xs once each, in the order of their last occurrences
RECURSIVE DedupKeepLast(_)
DedupKeepLast(xs) ==
    IF xs = <<>> THEN <<>>
    ELSE LET rest == DedupKeepLast(Tail(xs))
         IN  IF xs[1] \in {xs[i] : i \in 2..Len(xs)} THEN rest ELSE <<xs[1]>> \o rest

\* list(dict.fromkeys(xs)): first occurrences, in order
RECURSIVE Dedup(_)
Dedup(xs) ==
    IF xs = <<>> THEN <<>>
    ELSE LET init == Dedup(SubSeq(xs, 1, Len(xs) - 1))
             last == xs[Len(xs)]
         IN  IF last \in Range(init) THEN init ELSE Append(init, last)

\* xs[:n]
Take(xs, n) == SubSeq(xs, 1, IF n < Len(xs) THEN n ELSE Len(xs))

-----------------------------------------------------------------------------
(* Regular expressions as Python's re module matches them: a backtracking  *)
(* matcher that returns the ways a pattern can match at a position, in     *)
(* the order the engine tries them, so that the first one is the match.    *)

NoGroup == <<0, 0>>

MState(pos, g1, g2) == [pos |-> pos, g1 |-> g1, g2 |-> g2]

Lit(str)          == [k |-> "lit", str |-> str]
Cls(set)          == [k |-> "cls", set |-> set, neg |-> FALSE]
NotCls(set)       == [k |-> "cls", set |-> set, neg |-> TRUE]
Rep(c, lo, hi)    == [k |-> "rep", c |-> c, lo |-> lo, hi |-> hi]
Plus(c)           == [k |-> "rep", c |-> c, lo |-> 1, hi |-> -1]
Opt(r)            == [k |-> "opt", r |-> r]
Cat(rs)           == [k |-> "cat", rs |-> rs]
Alt(rs)           == [k |-> "alt", rs |-> rs]
Grp(n, r)         == [k |-> "grp", n |-> n, r |-> r]
WordBoundary      == [k |-> "wb"]

\* one character against a class, with or without re.IGNORECASE
InClass(c, ch, ic) ==
    LET hit == \/ ch \in c.set
               \/ ic /\ (LowerChar(ch) \in c.set \/ UpperChar(ch) \in c.set)
    IN  IF c.neg THEN ~hit ELSE hit

LitAt(str, s, p, ic) ==
    /\ p + Len(str) - 1 <= Len(s)
    /\ LET got == SubSeq(s, p, p + Len(str) - 1)
       IN  IF ic THEN Lower(got) = Lower(str) ELSE got = str

\* how many characters from p on are in the class (at most hi when hi >= 0)
RECURSIVE RunLen(_, _, _, _, _)
RunLen(c, s, p, ic, hi) ==
    IF hi = 0 \/ p > Len(s) \/ ~InClass(c, s[p], ic) THEN 0
    ELSE 1 + RunLen(c, s, p + 1, ic, IF hi < 0 THEN hi ELSE hi - 1)

IsWordAt(s, p) == p >= 1 /\ p <= Len(s) /\ s[p] \in WordSet

RECURSIVE Flatten(_)
Flatten(xss) == IF xss = <<>> THEN <<>> ELSE Head(xss) \o Flatten(Tail(xss))

FlatMap(xs, F(_)) == Flatten([i \in DOMAIN xs |-> F(xs[i])])

RECURSIVE Ways(_, _, _, _)
RECURSIVE CatWays(_, _, _, _, _)

CatWays(rs, i, s, st, ic) ==
    IF i > Len(rs) THEN <<st>>
    ELSE LET Next1(st1) == CatWays(rs, i + 1, s, st1, ic)
         IN  FlatMap(Ways(rs[i], s, st, ic), Next1)

Ways(r, s, st, ic) ==
    CASE r.k = "lit" ->
            IF LitAt(r.str, s, st.pos, ic)
            THEN <<[st EXCEPT !.pos = st.pos + Len(r.str)]>> ELSE <<>>
      [] r.k = "cls" ->
            IF st.pos <= Len(s) /\ InClass(r, s[st.pos], ic)
            THEN <<[st EXCEPT !.pos = st.pos + 1]>> ELSE <<>>
      [] r.k = "rep" ->
            \* greedy: the longest run first, then shorter ones
            LET n == RunLen(r.c, s, st.pos, ic, r.hi)
            IN  IF n < r.lo THEN <<>>
                ELSE [j \in 1..(n - r.lo + 1) |-> [st EXCEPT !.pos = st.pos + n - j + 1]]
      [] r.k = "opt" -> Ways(r.r, s, st, ic) \o <<st>>
      [] r.k = "cat" -> CatWays(r.rs, 1, s, st, ic)
      [] r.k = "alt" ->
            LET Try(a) == Ways(a, s, st, ic) IN FlatMap(r.rs, Try)
      [] r.k = "grp" ->
            LET Mark(st1) ==
                    <<IF r.n = 1 THEN [st1 EXCEPT !.g1 = <<st.pos, st1.pos>>]
                                 ELSE [st1 EXCEPT !.g2 = <<st.pos, st1.pos>>]>>
            IN  FlatMap(Ways(r.r, s, st, ic), Mark)
      [] r.k = "wb" ->
            IF IsWordAt(s, st.pos - 1) # IsWordAt(s, st.pos) THEN <<st>> ELSE <<>>

NoMatch == [found |-> FALSE]

FirstWay(p, ws) ==
    IF ws = <<>> THEN NoMatch
    ELSE [found |-> TRUE, start |-> p, end |-> ws[1].pos, g1 |-> ws[1].g1, g2 |-> ws[1].g2]

MatchAt(r, s, p, ic) == FirstWay(p, Ways(r, s, MState(p, NoGroup, NoGroup), ic))

\* re.match: only at the start of the string
ReMatch(r, s, ic) == MatchAt(r, s, 1, ic)

\* re.search from position p: the leftmost match
RECURSIVE SearchFrom(_, _, _, _)
RECURSIVE MatchOrSearchOn(_, _, _, _, _)
MatchOrSearchOn(m, r, s, p, ic) == IF m.found THEN m ELSE SearchFrom(r, s, p + 1, ic)

SearchFrom(r, s, p, ic) ==
    IF p > Len(s) + 1 THEN NoMatch
    ELSE MatchOrSearchOn(MatchAt(r, s, p, ic), r, s, p, ic)

ReSearch(r, s, ic) == SearchFrom(r, s, 1, ic)

\* the text of group n of a match (0 is the whole match)
Group(m, s, n) ==
    CASE n = 0 -> Slice(s, m.start, m.end)
      [] n = 1 -> Slice(s, m.g1[1], m.g1[2])
      [] n = 2 -> Slice(s, m.g2[1], m.g2[2])

\* re.findall: the non-overlapping matches left to right; with one group in
\* the pattern the list holds the group's text, not the whole match
RECURSIVE FindAllFrom(_, _, _, _, _)
FindAllFrom(r, groups, s, p, ic) ==
    LET m == SearchFrom(r, s, p, ic)
    IN  IF ~m.found THEN <<>>
        ELSE <<Group(m, s, IF groups = 0 THEN 0 ELSE 1)>>
             \o FindAllFrom(r, groups, s, IF m.end > m.start THEN m.end ELSE m.end + 1, ic)

ReFindAll(pat, s, ic) == FindAllFrom(pat.re, pat.groups, s, 1, ic)

-----------------------------------------------------------------------------
(* IncidentParser (analyzers/incident_parser.py) *)

\* self.patterns, in dict order; every pattern is applied with re.IGNORECASE
EntityTypes == <<"container", "vessel", "error_code", "reference", "email", "booking">>

\* r'\b[A-Z]{4}\d{7}\b'
ContainerPattern ==
    [groups |-> 0,
     re |-> Cat(<<WordBoundary, Rep(Cls(UpperSet), 4, 4), Rep(Cls(DigitSet), 7, 7),
                  WordBoundary>>)]

\* r'MV\s+[A-Z][A-Z\s]+(?:/\d+[A-Z]?)?'
VesselPattern ==
    [groups |-> 0,
     re |-> Cat(<<Lit(<<"M","V">>), Plus(Cls(SpaceSet)), Cls(UpperSet),
                  Plus(Cls(UpperSet \cup SpaceSet)),
                  Opt(Cat(<<Lit(<<"/">>), Plus(Cls(DigitSet)),
                            Rep(Cls(UpperSet), 0, 1)>>))>>)]

\* r'[A-Z_]+ERR[_-]\d+'
ErrorCodeRe ==
    Cat(<<Plus(Cls(UpperSet \cup {"_"})), Lit(<<"E","R","R">>), Cls({"_", "-"}),
          Plus(Cls(DigitSet))>>)

ErrorCodePattern == [groups |-> 0, re |-> ErrorCodeRe]

\* r'(REF|TCK|INC|ALR|SMS)-[A-Z0-9@-]+': one capturing group
ReferencePattern ==
    [groups |-> 1,
     re |-> Cat(<<Grp(1, Alt(<<Lit(<<"R","E","F">>), Lit(<<"T","C","K">>),
                               Lit(<<"I","N","C">>), Lit(<<"A","L","R">>),
                               Lit(<<"S","M","S">>)>>)),
                  Lit(<<"-">>),
                  Plus(Cls(UpperSet \cup DigitSet \cup {"@", "-"}))>>)]

\* r'[\w\.-]+@[\w\.-]+\.\w+'
EmailPattern ==
    [groups |-> 0,
     re |-> Cat(<<Plus(Cls(WordSet \cup {".", "-"})), Lit(<<"@">>),
                  Plus(Cls(WordSet \cup {".", "-"})), Lit(<<".">>),
                  Plus(Cls(WordSet))>>)]

\* r'BK-[A-Z0-9]+'
BookingPattern ==
    [groups |-> 0,
     re |-> Cat(<<Lit(<<"B","K","-">>), Plus(Cls(UpperSet \cup DigitSet))>>)]

patterns(entity_type) ==
    CASE entity_type = "container"  -> ContainerPattern
      [] entity_type = "vessel"     -> VesselPattern
      [] entity_type = "error_code" -> ErrorCodePattern
      [] entity_type = "reference"  -> ReferencePattern
      [] entity_type = "email"      -> EmailPattern
      [] entity_type = "booking"    -> BookingPattern

\* re.findall(pattern, text, re.IGNORECASE)
EntityMatches(entity_type, text) == ReFindAll(patterns(entity_type), text, TRUE)

\* _extract_entities without `if matches:`: a key for every entity type
_extract_entities_every_key(text) ==
    [t \in Range(EntityTypes) |-> Dedup(EntityMatches(t, text))]

\* _extract_entities: a key only for a type that matched; values deduplicated
\* in first-occurrence order
_extract_entities(text) ==
    LET found == {t \in Range(EntityTypes) : EntityMatches(t, text) # <<>>}
    IN  [t \in found |-> Dedup(EntityMatches(t, text))]

\* any(word in text_lower for word in words)
AnyWordIn(words, text_lower) == \E i \in DOMAIN words : Contains(text_lower, words[i])

\* ['duplicate', 'duplicated', 'two identical']
DuplicateWords ==
    << <<"d","u","p","l","i","c","a","t","e">>,
       <<"d","u","p","l","i","c","a","t","e","d">>,
       <<"t","w","o"," ","i","d","e","n","t","i","c","a","l">> >>

\* ['stuck', 'error status', 'not acknowledged']
StuckWords ==
    << <<"s","t","u","c","k">>,
       <<"e","r","r","o","r"," ","s","t","a","t","u","s">>,
       <<"n","o","t"," ","a","c","k","n","o","w","l","e","d","g","e","d">> >>

\* ['inconsistency', 'mismatch', 'conflicting']
InconsistencyWords ==
    << <<"i","n","c","o","n","s","i","s","t","e","n","c","y">>,
       <<"m","i","s","m","a","t","c","h">>,
       <<"c","o","n","f","l","i","c","t","i","n","g">> >>

\* ['timeout', 'timed out', 'not responding']
TimeoutWords ==
    << <<"t","i","m","e","o","u","t">>,
       <<"t","i","m","e","d"," ","o","u","t">>,
       <<"n","o","t"," ","r","e","s","p","o","n","d","i","n","g">> >>

\* ['unable to create', 'cannot create', 'creation failed']
CreationWords ==
    << <<"u","n","a","b","l","e"," ","t","o"," ","c","r","e","a","t","e">>,
       <<"c","a","n","n","o","t"," ","c","r","e","a","t","e">>,
       <<"c","r","e","a","t","i","o","n"," ","f","a","i","l","e","d">> >>

\* ['failed', 'failure', 'error']
GeneralErrorWords ==
    << <<"f","a","i","l","e","d">>,
       <<"f","a","i","l","u","r","e">>,
       <<"e","r","r","o","r">> >>

\* ['edi', 'edifact', 'codeco', 'baplie', 'coarri']
EdiWords ==
    << <<"e","d","i">>,
       <<"e","d","i","f","a","c","t">>,
       <<"c","o","d","e","c","o">>,
       <<"b","a","p","l","i","e">>,
       <<"c","o","a","r","r","i">> >>

\* ['vessel', 'ship', 'berth', 'arrival', 'departure']
VesselWords ==
    << <<"v","e","s","s","e","l">>,
       <<"s","h","i","p">>,
       <<"b","e","r","t","h">>,
       <<"a","r","r","i","v","a","l">>,
       <<"d","e","p","a","r","t","u","r","e">> >>

\* ['container', 'cntr']
ContainerWords ==
    << <<"c","o","n","t","a","i","n","e","r">>,
       <<"c","n","t","r">> >>

\* ['booking', 'bk-']
BookingWords ==
    << <<"b","o","o","k","i","n","g">>,
       <<"b","k","-">> >>

\* ['database', 'db', 'query', 'sql']
DatabaseWords ==
    << <<"d","a","t","a","b","a","s","e">>,
       <<"d","b">>,
       <<"q","u","e","r","y">>,
       <<"s","q","l">> >>

\* ['urgent', 'critical', 'immediately', 'production down', 'outage']
CriticalWords ==
    << <<"u","r","g","e","n","t">>,
       <<"c","r","i","t","i","c","a","l">>,
       <<"i","m","m","e","d","i","a","t","e","l","y">>,
       <<"p","r","o","d","u","c","t","i","o","n"," ","d","o","w","n">>,
       <<"o","u","t","a","g","e">> >>

\* ['high priority', 'multiple', 'affecting customers', 'business impact']
HighWords ==
    << <<"h","i","g","h"," ","p","r","i","o","r","i","t","y">>,
       <<"m","u","l","t","i","p","l","e">>,
       <<"a","f","f","e","c","t","i","n","g"," ","c","u","s","t","o","m","e","r","s">>,
       <<"b","u","s","i","n","e","s","s"," ","i","m","p","a","c","t">> >>

\* ['minor', 'low priority', 'cosmetic', 'display only']
LowWords ==
    << <<"m","i","n","o","r">>,
       <<"l","o","w"," ","p","r","i","o","r","i","t","y">>,
       <<"c","o","s","m","e","t","i","c">>,
       <<"d","i","s","p","l","a","y"," ","o","n","l","y">> >>

\* ['duplicate', 'error', 'failed', 'timeout', 'stuck', 'inconsistency', 'mismatch', 'conflict', 'invalid', 'missing', 'not found', 'unable', 'cannot', 'vessel', 'container', 'edi', 'api', 'database', 'booking', 'advice', 'message', 'acknowledgment']
keyword_patterns ==
    << <<"d","u","p","l","i","c","a","t","e">>,
       <<"e","r","r","o","r">>,
       <<"f","a","i","l","e","d">>,
       <<"t","i","m","e","o","u","t">>,
       <<"s","t","u","c","k">>,
       <<"i","n","c","o","n","s","i","s","t","e","n","c","y">>,
       <<"m","i","s","m","a","t","c","h">>,
       <<"c","o","n","f","l","i","c","t">>,
       <<"i","n","v","a","l","i","d">>,
       <<"m","i","s","s","i","n","g">>,
       <<"n","o","t"," ","f","o","u","n","d">>,
       <<"u","n","a","b","l","e">>,
       <<"c","a","n","n","o","t">>,
       <<"v","e","s","s","e","l">>,
       <<"c","o","n","t","a","i","n","e","r">>,
       <<"e","d","i">>,
       <<"a","p","i">>,
       <<"d","a","t","a","b","a","s","e">>,
       <<"b","o","o","k","i","n","g">>,
       <<"a","d","v","i","c","e">>,
       <<"m","e","s","s","a","g","e">>,
       <<"a","c","k","n","o","w","l","e","d","g","m","e","n","t">> >>

\* _classify_incident with the error-code rule moved before the
\* creation-failure rule
_classify_incident_code_first(text, entities) ==
    LET text_lower == Lower(text)
    IN  IF AnyWordIn(DuplicateWords, text_lower) THEN "duplicate_entry"
        ELSE IF AnyWordIn(StuckWords, text_lower) THEN "stuck_process"
        ELSE IF AnyWordIn(InconsistencyWords, text_lower) THEN "data_inconsistency"
        ELSE IF AnyWordIn(TimeoutWords, text_lower) THEN "timeout"
        ELSE IF "error_code" \in DOMAIN entities THEN "error_code_incident"
        ELSE IF AnyWordIn(CreationWords, text_lower) THEN "creation_failure"
        ELSE IF AnyWordIn(GeneralErrorWords, text_lower) THEN "general_error"
        ELSE "unknown"

\* _classify_incident where a later rule that holds overrides an earlier one
_classify_incident_last_rule(text, entities) ==
    LET text_lower == Lower(text)
    IN  IF AnyWordIn(GeneralErrorWords, text_lower) THEN "general_error"
        ELSE IF "error_code" \in DOMAIN entities THEN "error_code_incident"
        ELSE IF AnyWordIn(CreationWords, text_lower) THEN "creation_failure"
        ELSE IF AnyWordIn(TimeoutWords, text_lower) THEN "timeout"
        ELSE IF AnyWordIn(InconsistencyWords, text_lower) THEN "data_inconsistency"
        ELSE IF AnyWordIn(StuckWords, text_lower) THEN "stuck_process"
        ELSE IF AnyWordIn(DuplicateWords, text_lower) THEN "duplicate_entry"
        ELSE "unknown"

\* _classify_incident: the first rule that holds
_classify_incident(text, entities) ==
    LET text_lower == Lower(text)
    IN  IF AnyWordIn(DuplicateWords, text_lower) THEN "duplicate_entry"
        ELSE IF AnyWordIn(StuckWords, text_lower) THEN "stuck_process"
        ELSE IF AnyWordIn(InconsistencyWords, text_lower) THEN "data_inconsistency"
        ELSE IF AnyWordIn(TimeoutWords, text_lower) THEN "timeout"
        ELSE IF AnyWordIn(CreationWords, text_lower) THEN "creation_failure"
        ELSE IF "error_code" \in DOMAIN entities THEN "error_code_incident"
        ELSE IF AnyWordIn(GeneralErrorWords, text_lower) THEN "general_error"
        ELSE "unknown"

\* _identify_module with the Container rule before the Vessel rule
_identify_module_container_first(text, entities) ==
    LET text_lower == Lower(text)
    IN  IF AnyWordIn(EdiWords, text_lower) THEN "EDI/API"
        ELSE IF "container" \in DOMAIN entities \/ AnyWordIn(ContainerWords, text_lower)
             THEN "Container"
        ELSE IF AnyWordIn(VesselWords, text_lower) THEN "Vessel"
        ELSE IF AnyWordIn(BookingWords, text_lower) THEN "Booking"
        ELSE IF AnyWordIn(DatabaseWords, text_lower) THEN "Database"
        ELSE "General"

\* _identify_module: the first rule that holds
_identify_module(text, entities) ==
    LET text_lower == Lower(text)
    IN  IF AnyWordIn(EdiWords, text_lower) THEN "EDI/API"
        ELSE IF AnyWordIn(VesselWords, text_lower) THEN "Vessel"
        ELSE IF "container" \in DOMAIN entities \/ AnyWordIn(ContainerWords, text_lower)
             THEN "Container"
        ELSE IF AnyWordIn(BookingWords, text_lower) THEN "Booking"
        ELSE IF AnyWordIn(DatabaseWords, text_lower) THEN "Database"
        ELSE "General"

\* _estimate_severity with the LOW rule first
_estimate_severity_low_first(text) ==
    LET text_lower == Lower(text)
    IN  IF AnyWordIn(LowWords, text_lower) THEN "LOW"
        ELSE IF AnyWordIn(CriticalWords, text_lower) THEN "CRITICAL"
        ELSE IF AnyWordIn(HighWords, text_lower) THEN "HIGH"
        ELSE "MEDIUM"

\* _estimate_severity: the first rule that holds
_estimate_severity(text) ==
    LET text_lower == Lower(text)
    IN  IF AnyWordIn(CriticalWords, text_lower) THEN "CRITICAL"
        ELSE IF AnyWordIn(HighWords, text_lower) THEN "HIGH"
        ELSE IF AnyWordIn(LowWords, text_lower) THEN "LOW"
        ELSE "MEDIUM"

\* _extract_keywords: list(set(...)), so a set; the error codes are found
\* without re.IGNORECASE here
_extract_keywords(text) ==
    LET text_lower == Lower(text)
    IN  {keyword_patterns[i] : i \in {j \in DOMAIN keyword_patterns :
                                        Contains(text_lower, keyword_patterns[j])}}
        \cup Range(FindAllFrom(ErrorCodeRe, 0, text, 1, FALSE))

\* parse (parsed_at, the wall clock, is left out)
parse(incident_text) ==
    LET entities == _extract_entities(incident_text)
    IN  [raw_text      |-> incident_text,
         entities      |-> entities,
         incident_type |-> _classify_incident(incident_text, entities),
         module        |-> _identify_module(incident_text, entities),
         severity      |-> _estimate_severity(incident_text),
         keywords      |-> _extract_keywords(incident_text)]

-----------------------------------------------------------------------------
(* Incident texts: phrases of the sample incidents (app.py, the tests),    *)
(* joined by single spaces.                                                *)

MaxPhrases == 2

\* 'container CMAU0000020'
PhraseContainer ==
    <<"c","o","n","t","a","i","n","e","r"," ","C","M","A","U","0","0","0","0","0","2","0">>

\* '2 identical containers'
PhraseIdentical ==
    <<"2"," ","i","d","e","n","t","i","c","a","l"," ","c","o","n","t","a","i","n","e","r","s">>

\* 'VESSEL_ERR_4'
PhraseVesselErr ==
    <<"V","E","S","S","E","L","_","E","R","R","_","4">>

\* 'unable to create vessel advice'
PhraseUnableCreate ==
    <<"u","n","a","b","l","e"," ","t","o"," ","c","r","e","a","t","e"," ","v","e","s","s","e","l"," ","a","d","v","i","c","e">>

\* 'EDI message REF-IFT-0007 stuck in ERROR status'
PhraseEdiStuck ==
    <<"E","D","I"," ","m","e","s","s","a","g","e"," ","R","E","F","-","I","F","T","-","0","0","0","7"," ","s","t","u","c","k"," ","i","n"," ","E","R","R","O","R"," ","s","t","a","t","u","s">>

\* 'ack_at is NULL'
PhraseAckNull ==
    <<"a","c","k","_","a","t"," ","i","s"," ","N","U","L","L">>

\* 'Duplicate Container information received'
PhraseDuplicate ==
    <<"D","u","p","l","i","c","a","t","e"," ","C","o","n","t","a","i","n","e","r"," ","i","n","f","o","r","m","a","t","i","o","n"," ","r","e","c","e","i","v","e","d">>

\* 'Hi Team'
PhraseHello ==
    <<"H","i"," ","T","e","a","m">>

\* 'request timed out'
PhraseTimedOut ==
    <<"r","e","q","u","e","s","t"," ","t","i","m","e","d"," ","o","u","t">>

\* 'the ship is late'
PhraseShipLate ==
    <<"t","h","e"," ","s","h","i","p"," ","i","s"," ","l","a","t","e">>

\* 'login failure'
PhraseFailure ==
    <<"l","o","g","i","n"," ","f","a","i","l","u","r","e">>

\* 'urgent: jen@psa.com'
PhraseUrgentMail ==
    <<"u","r","g","e","n","t",":"," ","j","e","n","@","p","s","a",".","c","o","m">>

IncidentPhrases ==
    <<PhraseContainer, PhraseIdentical, PhraseVesselErr, PhraseUnableCreate,
      PhraseEdiStuck, PhraseAckNull, PhraseDuplicate, PhraseHello,
      PhraseTimedOut, PhraseShipLate, PhraseFailure, PhraseUrgentMail>>

\* 'CMAU0000020', 'VESSEL_ERR_4', 'REF-IFT-0007', 'REF'

CMAU0000020 ==
    <<"C","M","A","U","0","0","0","0","0","2","0">>

VESSEL_ERR_4 ==
    <<"V","E","S","S","E","L","_","E","R","R","_","4">>

REF_IFT_0007 ==
    <<"R","E","F","-","I","F","T","-","0","0","0","7">>

PhraseOrders ==
    UNION {{q \in [1..n -> DOMAIN IncidentPhrases] :
              \A i, j \in 1..n : i # j => q[i] # q[j]} : n \in 0..MaxPhrases}

IncidentTexts ==
    {JoinSpace([i \in DOMAIN q |-> IncidentPhrases[q[i]]]) : q \in PhraseOrders}

-----------------------------------------------------------------------------
(* State: nothing is loaded until a specification's Init loads it *)

NothingLoaded ==
    /\ logs_cache = <<>>
    /\ cases = <<>>
    /\ sections = <<>>
    /\ content = <<>>
    /\ contacts_by_module = <<>>
    /\ engine = "none"
    /\ files = <<>>

\* IncidentParser().parse(incident_text)
Parse ==
    /\ pc = "call"
    /\ op.name = "parse"
    /\ result' = parse(op.text)
    /\ pc' = "return"
    /\ UNCHANGED <<op, files, loaded>>

InitParser ==
    /\ NothingLoaded
    /\ pc = "call"
    /\ result = <<>>
    /\ \E t \in IncidentTexts : op = [name |-> "parse", text |-> t]

NextParser == Parse

SpecParser == InitParser /\ [][NextParser]_vars

-----------------------------------------------------------------------------
(* Claims about IncidentParser, under SpecParser *)

Parsed == pc = "return" /\ op.name = "parse"

TextHas(phrase) == Contains(op.text, phrase)

TextHasAny(words) == AnyWordIn(words, Lower(op.text))

HasEntity(entity_type, value) ==
    /\ entity_type \in DOMAIN result.entities
    /\ value \in Range(result.entities[entity_type])

\* C4: a text with 'EDI message REF-IFT-0007 stuck in ERROR status' and
\* 'ack_at is NULL' parses to a reference list that contains the whole
\* identifier REF-IFT-0007, type stuck_process and module EDI/API.
C4_ReferenceIsWholeIdentifier ==
    (Parsed /\ TextHas(PhraseEdiStuck) /\ TextHas(PhraseAckNull)) =>
        /\ HasEntity("reference", REF_IFT_0007)
        /\ result.incident_type = "stuck_process"
        /\ result.module = "EDI/API"

\* C5: a text with 'container CMAU0000020' and '2 identical containers' and
\* no EDI or vessel vocabulary parses to container = [CMAU0000020], type
\* duplicate_entry and module Container.
C5_IdenticalContainersIsDuplicate ==
    (Parsed /\ TextHas(PhraseContainer) /\ TextHas(PhraseIdentical)
            /\ ~TextHasAny(EdiWords) /\ ~TextHasAny(VesselWords)) =>
        /\ "container" \in DOMAIN result.entities
        /\ result.entities["container"] = <<CMAU0000020>>
        /\ result.incident_type = "duplicate_entry"
        /\ result.module = "Container"

C6_Case ==
    /\ Parsed
    /\ TextHas(VESSEL_ERR_4)
    /\ TextHas(PhraseUnableCreate)
    /\ ~TextHasAny(DuplicateWords) /\ ~TextHasAny(StuckWords)
    /\ ~TextHasAny(InconsistencyWords) /\ ~TextHasAny(TimeoutWords)
    /\ ~TextHasAny(EdiWords)

NoEntityMatches == \A t \in Range(EntityTypes) : EntityMatches(t, op.text) = <<>>

ModuleVocabulary ==
    \/ TextHasAny(EdiWords) \/ TextHasAny(VesselWords) \/ TextHasAny(ContainerWords)
    \/ TextHasAny(BookingWords) \/ TextHasAny(DatabaseWords)

SpecificTypePhrase ==
    \/ TextHasAny(DuplicateWords) \/ TextHasAny(StuckWords)
    \/ TextHasAny(InconsistencyWords) \/ TextHasAny(TimeoutWords)
    \/ TextHasAny(CreationWords)

\* C7 as stated: a text in which no entity pattern matches parses to an empty
\* entity mapping, module General and a type that is general_error or unknown.
C7_NoEntitiesMeansGeneral ==
    (Parsed /\ NoEntityMatches) =>
        /\ DOMAIN result.entities = {}
        /\ result.module = "General"
        /\ result.incident_type \in {"general_error", "unknown"}

\* C7 amended: a text in which no entity pattern matches parses to an empty
\* entity mapping; its module is General when it has no module vocabulary,
\* and its type is general_error or unknown when it has no duplicate, stuck,
\* inconsistency, timeout or creation-failure phrase.
C7_NoEntitiesNoVocabularyMeansGeneral ==
    (Parsed /\ NoEntityMatches) =>
        /\ DOMAIN result.entities = {}
        /\ ~ModuleVocabulary => result.module = "General"
        /\ ~SpecificTypePhrase => result.incident_type \in {"general_error", "unknown"}

C7_Witness ==
    /\ Parsed
    /\ NoEntityMatches
    /\ ~ModuleVocabulary
    /\ ~SpecificTypePhrase
    /\ DOMAIN result.entities = {}
    /\ result.module = "General"
    /\ result.incident_type = "general_error"

-----------------------------------------------------------------------------
(* ApplicationLogParser (parsers/log_parser.py) *)

\* None, which is no str
None == <<"<None>">>

\* 'DEBUG', 'INFO', 'WARN', 'ERROR', 'UNKNOWN', 'unknown'
DEBUG == <<"D","E","B","U","G">>
INFO == <<"I","N","F","O">>
WARN == <<"W","A","R","N">>
ERROR == <<"E","R","R","O","R">>
UNKNOWN == <<"U","N","K","N","O","W","N">>
unknown == <<"u","n","k","n","o","w","n">>

Digits(n) == Rep(Cls(DigitSet), n, n)

\* r'(\d{4}-\d{2}-\d{2}T\d{2}:\d{2}:\d{2}\.\d{3}Z)'
TimestampRe ==
    Grp(1, Cat(<<Digits(4), Lit(<<"-">>), Digits(2), Lit(<<"-">>), Digits(2),
                 Lit(<<"T">>), Digits(2), Lit(<<":">>), Digits(2), Lit(<<":">>),
                 Digits(2), Lit(<<".">>), Digits(3), Lit(<<"Z">>)>>))

\* r'\s(DEBUG|INFO|WARN|ERROR)\s'
LevelRe ==
    Cat(<<Cls(SpaceSet), Grp(1, Alt(<<Lit(DEBUG), Lit(INFO), Lit(WARN), Lit(ERROR)>>)),
          Cls(SpaceSet)>>)

\* r'(INFO|ERROR|WARN|DEBUG)\s+(\S+)\s'
ServiceRe ==
    Cat(<<Grp(1, Alt(<<Lit(INFO), Lit(ERROR), Lit(WARN), Lit(DEBUG)>>)),
          Plus(Cls(SpaceSet)), Grp(2, Plus(NotCls(SpaceSet))), Cls(SpaceSet)>>)

LogEntry(line_num, timestamp, level, component, message, raw) ==
    [line_num |-> line_num, timestamp |-> timestamp, level |-> level,
     component |-> component, message |-> message, raw |-> raw]

\* the entry of a line, from what the three patterns found in it
EntryOfMatches(line, line_num, timestamp_match, level_match, service_match) ==
    LogEntry(line_num,
             IF timestamp_match.found THEN Group(timestamp_match, line, 1) ELSE None,
             IF level_match.found THEN Group(level_match, line, 1) ELSE UNKNOWN,
             IF service_match.found THEN Group(service_match, line, 2) ELSE unknown,
             IF service_match.found
             THEN Strip(Slice(line, service_match.end, Len(line) + 1))
             ELSE Strip(line),
             Strip(line))

\* _parse_log_line with re.search, not re.match, for the timestamp
_parse_log_line_any_timestamp(line, line_num) ==
    EntryOfMatches(line, line_num, ReSearch(TimestampRe, line, FALSE),
                   ReSearch(LevelRe, line, FALSE), ReSearch(ServiceRe, line, FALSE))

\* _parse_log_line: each field is extracted on its own and has its own default
_parse_log_line(line, line_num) ==
    EntryOfMatches(line, line_num, ReMatch(TimestampRe, line, FALSE),
                   ReSearch(LevelRe, line, FALSE), ReSearch(ServiceRe, line, FALSE))

\* all(term in line for term in search_terms)
AnyTermIn_all(search_terms, line) ==
    \A i \in DOMAIN search_terms : Contains(line, search_terms[i])

\* any(term in line for term in search_terms)
AnyTermIn(search_terms, line) ==
    \E i \in DOMAIN search_terms : Contains(line, search_terms[i])

\* ServiceMatches with enumerate(log_lines): line numbers from 0
ServiceMatches_from_zero(log_lines, search_terms) ==
    LET Hit(line_num) == AnyTermIn(search_terms, log_lines[line_num])
        hits == SelectSeq([i \in DOMAIN log_lines |-> i], Hit)
    IN  [j \in DOMAIN hits |-> _parse_log_line(log_lines[hits[j]], hits[j] - 1)]

\* the entries of one service: one per matching line, in line order
ServiceMatches(log_lines, search_terms) ==
    LET Hit(line_num) == AnyTermIn(search_terms, log_lines[line_num])
        hits == SelectSeq([i \in DOMAIN log_lines |-> i], Hit)
    IN  [j \in DOMAIN hits |-> _parse_log_line(log_lines[hits[j]], hits[j])]

\* a dict, in insertion order: a sequence of key/value pairs with distinct keys
Item(key, val) == [key |-> key, val |-> val]

Keys(dict) == {dict[i].key : i \in DOMAIN dict}

Values(dict) == [i \in DOMAIN dict |-> dict[i].val]

\* search_logs without `if matches:`: every service is a key
search_logs_every_service(search_terms) ==
    [i \in DOMAIN logs_cache |->
        Item(logs_cache[i].key, ServiceMatches(logs_cache[i].val, search_terms))]

\* search_logs: a service is a key only when it has a matching line
search_logs(search_terms) ==
    LET all == [i \in DOMAIN logs_cache |->
                   Item(logs_cache[i].key, ServiceMatches(logs_cache[i].val, search_terms))]
        NonEmpty(item) == item.val # <<>>
    IN  SelectSeq(all, NonEmpty)

-----------------------------------------------------------------------------
(* Log files: lines as readlines() returns them, and search terms *)

MaxLines == 2

\* the services of LOG_FILES that are loaded, in dict order
Services == <<"container", "edi_advice">>

\* '2025-10-09T08:25:33.050Z ERROR api dup CMAU0000020\n'
LineError ==
    <<"2","0","2","5","-","1","0","-","0","9","T","0","8",":","2","5",":","3","3",".","0","5","0","Z"," ","E","R","R","O","R"," ","a","p","i"," ","d","u","p"," ","C","M","A","U","0","0","0","0","0","2","0","\n">>

\* '2025-10-09T08:25:32.000Z WARN edi REF-IFT-0007 no ack\n'
LineWarn ==
    <<"2","0","2","5","-","1","0","-","0","9","T","0","8",":","2","5",":","3","2",".","0","0","0","Z"," ","W","A","R","N"," ","e","d","i"," ","R","E","F","-","I","F","T","-","0","0","0","7"," ","n","o"," ","a","c","k","\n">>

\* '  at handler CMAU0000020\n'
LineNoGrammar ==
    <<" "," ","a","t"," ","h","a","n","d","l","e","r"," ","C","M","A","U","0","0","0","0","0","2","0","\n">>

\* 'cmau0000020 ref-ift-0007 done\n'
LineLowerCase ==
    <<"c","m","a","u","0","0","0","0","0","2","0"," ","r","e","f","-","i","f","t","-","0","0","0","7"," ","d","o","n","e","\n">>

LogLines == {LineError, LineWarn, LineNoGrammar, LineLowerCase}

SeqsUpTo(S, n) == UNION {[1..k -> S] : k \in 0..n}

\* 'REF', what the reference pattern extracts
REF ==
    <<"R","E","F">>

SearchTermLists ==
    {<<>>, <<CMAU0000020>>, <<REF_IFT_0007>>, <<REF_IFT_0007, CMAU0000020>>, <<REF>>,
     <<VESSEL_ERR_4>>}

LogCaches ==
    {[i \in DOMAIN Services |-> Item(Services[i], f[i])] :
        f \in [DOMAIN Services -> SeqsUpTo(LogLines, MaxLines)]}

\* ApplicationLogParser.search_logs(search_terms)
SearchLogs ==
    /\ pc = "call"
    /\ op.name = "search_logs"
    /\ result' = search_logs(op.search_terms)
    /\ pc' = "return"
    /\ UNCHANGED <<op, files, loaded>>

InitLogs ==
    /\ logs_cache \in LogCaches
    /\ cases = <<>>
    /\ sections = <<>>
    /\ content = <<>>
    /\ contacts_by_module = <<>>
    /\ engine = "none"
    /\ files = <<>>
    /\ pc = "call"
    /\ result = <<>>
    /\ \E ts \in SearchTermLists : op = [name |-> "search_logs", search_terms |-> ts]

NextLogs == SearchLogs

SpecLogs == InitLogs /\ [][NextLogs]_vars

-----------------------------------------------------------------------------
(* Claims about search_logs, under SpecLogs *)

Searched == pc = "return" /\ op.name = "search_logs"

\* a line of the service holds a search term, upper and lower case distinct
ServiceHasTerm(i) ==
    \E n \in DOMAIN logs_cache[i].val : \E k \in DOMAIN op.search_terms :
        Contains(logs_cache[i].val[n], op.search_terms[k])

\* C1: search_logs returns a mapping in which a service is a key exactly when
\* one of its lines contains a search term as a case-sensitive substring; no
\* service is a key with an empty list.
C1_ServiceIsKeyIffLineMatches ==
    Searched =>
        /\ \A i \in DOMAIN logs_cache :
              logs_cache[i].key \in Keys(result) <=> ServiceHasTerm(i)
        /\ \A j \in DOMAIN result : result[j].val # <<>>
        /\ \A j, k \in DOMAIN result : result[j].key = result[k].key => j = k

\* a service without a matching line is left out while another one is kept,
\* and a line that differs from the term only in case does not match
C1_Witness ==
    /\ Searched
    /\ \E i, j \in DOMAIN logs_cache :
          /\ logs_cache[i].val # <<>>
          /\ LineLowerCase \in Range(logs_cache[i].val)
          /\ logs_cache[i].key \notin Keys(result)
          /\ logs_cache[j].key \in Keys(result)

-----------------------------------------------------------------------------
(* Single log lines: with and without each part of the line grammar *)

\* '2025-10-09T08:25:33.050Z'
SampleTimestamp ==
    <<"2","0","2","5","-","1","0","-","0","9","T","0","8",":","2","5",":","3","3",".","0","5","0","Z">>

LineHeads ==
    {<<>>, SampleTimestamp, <<"a","t"," ">> \o SampleTimestamp, <<" "," ">>}

LineLevels ==
    {<<>>, <<" ","E","R","R","O","R">>, <<"I","N","F","O">>, <<" ","W","A","R","N">>, <<" ","e","r","r","o","r">>, <<" ","D","E","B","U","G","G","I","N","G">>}

LineComponents ==
    {<<>>, <<" ","a","p","i","-","e","v","e","n","t","-","s","e","r","v","i","c","e">>, <<" ">>}

LineMessages ==
    {<<>>, <<" ","B","o","o","t"," ","v","e","r","s","i","o","n","=","1",".","0",".","0">>, <<" ","r","e","t","r","y"," ","a","f","t","e","r"," ","E","R","R","O","R"," ","i","n"," ","d","b"," ">>}

LineEnds ==
    {<<>>, <<"\n">>}

SingleLines ==
    {h \o l \o c \o m \o e :
        h \in LineHeads, l \in LineLevels, c \in LineComponents,
        m \in LineMessages, e \in LineEnds}

\* ApplicationLogParser._parse_log_line(line, line_num)
ParseLogLine ==
    /\ pc = "call"
    /\ op.name = "_parse_log_line"
    /\ result' = _parse_log_line(op.line, op.line_num)
    /\ pc' = "return"
    /\ UNCHANGED <<op, files, loaded>>

InitLogLine ==
    /\ NothingLoaded
    /\ pc = "call"
    /\ result = <<>>
    /\ \E line \in SingleLines :
          op = [name |-> "_parse_log_line", line |-> line, line_num |-> 1]

NextLogLine == ParseLogLine

SpecLogLine == InitLogLine /\ [][NextLogLine]_vars

-----------------------------------------------------------------------------
(* Claims about _parse_log_line, under SpecLogLine *)

LineParsed == pc = "return" /\ op.name = "_parse_log_line"

LevelWords == {DEBUG, INFO, WARN, ERROR}

\* the line grammar: a leading timestamp, a level token, a component token,
\* then the message
GrammarRe ==
    Cat(<<TimestampRe, Plus(Cls(SpaceSet)),
          Alt(<<Lit(DEBUG), Lit(INFO), Lit(WARN), Lit(ERROR)>>), Plus(Cls(SpaceSet)),
          Plus(NotCls(SpaceSet))>>)

FollowsGrammar(line) == ReMatch(GrammarRe, line, FALSE).found

HasLeadingTimestamp(line) == ReMatch(TimestampRe, line, FALSE).found

HasLevelWord(line) == \E w \in LevelWords : Contains(line, w)

\* C10 as stated: a line that does not follow the line grammar still yields an
\* entry, with level UNKNOWN, no timestamp and the whole line (with or
\* without its surrounding whitespace) as message.
C10_OffGrammarLineIsUnknown ==
    (LineParsed /\ ~FollowsGrammar(op.line)) =>
        /\ result.level = UNKNOWN
        /\ result.timestamp = None
        /\ result.message \in {op.line, Strip(op.line)}

\* C10 amended: a line with no leading timestamp and none of the words DEBUG,
\* INFO, WARN, ERROR yields an entry with level UNKNOWN, no timestamp,
\* component 'unknown' and the stripped line as message.
C10_LineWithoutTimestampAndLevelIsUnknown ==
    (LineParsed /\ ~HasLeadingTimestamp(op.line) /\ ~HasLevelWord(op.line)) =>
        /\ result.line_num = op.line_num
        /\ result.level = UNKNOWN
        /\ result.timestamp = None
        /\ result.component = unknown
        /\ result.message = Strip(op.line)

C10_Witness ==
    /\ LineParsed
    /\ ~HasLeadingTimestamp(op.line)
    /\ ~HasLevelWord(op.line)
    /\ Contains(op.line, SampleTimestamp)
    /\ result.level = UNKNOWN
    /\ result.timestamp = None
    /\ result.message = Strip(op.line)
    /\ result.message # op.line

-----------------------------------------------------------------------------
(* list.sort: stable, so equal keys keep their order *)

StableSort(xs, Less(_, _)) ==
    LET Before(i) == {j \in DOMAIN xs :
                        \/ Less(xs[j], xs[i])
                        \/ ~Less(xs[i], xs[j]) /\ j < i}
    IN  [p \in DOMAIN xs |-> xs[CHOOSE i \in DOMAIN xs : Cardinality(Before(i)) = p - 1]]

\* a / b on two ints: the quotient as a fraction, compared by value
Div(a, b) == [num |-> a, den |-> b]

FracLess(x, y) == x.num * y.den < y.num * x.den

FracEq(x, y) == x.num * y.den = y.num * x.den

-----------------------------------------------------------------------------
(* CaseLogParser (parsers/case_log_parser.py) *)

\* the searchable text of a case
CombinedText(case) == Join2(Lower(case.Problem_Statements), Lower(case.Solution))

KeywordIn(keyword, text) == Contains(text, Lower(keyword))

\* sum(1 for keyword in keywords if keyword.lower() in combined_text)
CountMatches(keywords, text) ==
    Cardinality({i \in DOMAIN keywords : KeywordIn(keywords[i], text)})

\* [k for k in keywords if k.lower() in combined_text]
MatchedKeywords(keywords, text) ==
    LET In(k) == KeywordIn(k, text) IN SelectSeq(keywords, In)

CaseMatch(case, similarity, matched_keywords) ==
    [case |-> case, similarity |-> similarity, matched_keywords |-> matched_keywords]

HigherSimilarity(a, b) == FracLess(b.similarity, a.similarity)

\* search_by_keywords with the score taken over the number of cases
search_by_keywords_per_case(keywords) ==
    IF keywords = <<>> THEN <<>>
    ELSE LET Matches(case) == CountMatches(keywords, CombinedText(case))
             Hit(case) == Matches(case) > 0
             hits == SelectSeq(cases, Hit)
             matching_cases ==
                 [i \in DOMAIN hits |->
                     CaseMatch(hits[i], Div(Matches(hits[i]), Len(cases)),
                               MatchedKeywords(keywords, CombinedText(hits[i])))]
         IN  StableSort(matching_cases, HigherSimilarity)

LowerSimilarity(a, b) == FracLess(a.similarity, b.similarity)

\* search_by_keywords with sort() then reverse(), not sort(reverse=True): cases
\* of equal similarity come out in reverse load order
search_by_keywords_sorted_then_reversed(keywords) ==
    IF keywords = <<>> THEN <<>>
    ELSE LET Matches(case) == CountMatches(keywords, CombinedText(case))
             Hit(case) == Matches(case) > 0
             hits == SelectSeq(cases, Hit)
             matching_cases ==
                 [i \in DOMAIN hits |->
                     CaseMatch(hits[i], Div(Matches(hits[i]), Len(keywords)),
                               MatchedKeywords(keywords, CombinedText(hits[i])))]
             ascending == StableSort(matching_cases, LowerSimilarity)
         IN  [i \in DOMAIN ascending |-> ascending[Len(ascending) + 1 - i]]

\* search_by_keywords: the cases with a match, best similarity first
search_by_keywords(keywords) ==
    IF keywords = <<>> THEN <<>>
    ELSE LET Matches(case) == CountMatches(keywords, CombinedText(case))
             Hit(case) == Matches(case) > 0
             hits == SelectSeq(cases, Hit)
             matching_cases ==
                 [i \in DOMAIN hits |->
                     CaseMatch(hits[i], Div(Matches(hits[i]), Len(keywords)),
                               MatchedKeywords(keywords, CombinedText(hits[i])))]
         IN  StableSort(matching_cases, HigherSimilarity)

\* search_by_module: str(case.get('Module', '')).lower() == module.lower()
search_by_module(module) ==
    LET Same(case) == Lower(case.Module) = Lower(module) IN SelectSeq(cases, Same)

\* search_similar with matches[:top_n + 1]
search_similar_one_more(incident_keywords, top_n) ==
    Take(search_by_keywords(incident_keywords), top_n + 1)

\* search_similar: matches[:top_n]
search_similar(incident_keywords, top_n) == Take(search_by_keywords(incident_keywords), top_n)

-----------------------------------------------------------------------------
(* Case records and keyword lists *)

MaxCases == 2

MaxKeywords == 2

Case(module, problem, solution) ==
    [Module |-> module, Problem_Statements |-> problem, Solution |-> solution]

CaseDuplicate ==
    Case(<<"C","o","n","t","a","i","n","e","r">>, <<"D","u","p","l","i","c","a","t","e"," ","c","o","n","t","a","i","n","e","r"," ","r","e","c","o","r","d">>, <<"R","e","m","o","v","e"," ","t","h","e"," ","d","u","p","l","i","c","a","t","e"," ","e","n","t","r","y">>)

CaseEdi ==
    Case(<<"E","D","I","/","A","P","I">>, <<"E","D","I"," ","m","e","s","s","a","g","e"," ","s","t","u","c","k">>, <<"R","e","s","e","n","d"," ","a","f","t","e","r"," ","t","h","e"," ","e","r","r","o","r">>)

CaseVessel ==
    Case(<<"V","e","s","s","e","l">>, <<"V","e","s","s","e","l"," ","a","d","v","i","c","e"," ","e","r","r","o","r">>, <<"U","s","e"," ","a","n","o","t","h","e","r"," ","v","e","s","s","e","l"," ","n","a","m","e">>)

CaseRecords == {CaseDuplicate, CaseEdi, CaseVessel}

\* 'duplicate', 'error', 'vessel', 'EDI', 'timeout'
Keywords ==
    {<<"d","u","p","l","i","c","a","t","e">>, <<"e","r","r","o","r">>, <<"v","e","s","s","e","l">>, <<"E","D","I">>, <<"t","i","m","e","o","u","t">>}

\* CaseLogParser.search_by_keywords(keywords)
SearchByKeywords ==
    /\ pc = "call"
    /\ op.name = "search_by_keywords"
    /\ result' = search_by_keywords(op.keywords)
    /\ pc' = "return"
    /\ UNCHANGED <<op, files, loaded>>

\* CaseLogParser.search_similar(incident_keywords, top_n)
SearchSimilar ==
    /\ pc = "call"
    /\ op.name = "search_similar"
    /\ result' = search_similar(op.incident_keywords, op.top_n)
    /\ pc' = "return"
    /\ UNCHANGED <<op, files, loaded>>

\* the values of top_n: none, fewer than the matches, as many, and the 5 that
\* _search_cases asks for
TopNs == {0, 1, 2, 5}

InitCases ==
    /\ logs_cache = <<>>
    /\ cases \in SeqsUpTo(CaseRecords, MaxCases)
    /\ sections = <<>>
    /\ content = <<>>
    /\ contacts_by_module = <<>>
    /\ engine = "none"
    /\ files = <<>>
    /\ pc = "call"
    /\ result = <<>>
    /\ \E ks \in SeqsUpTo(Keywords, MaxKeywords) :
          \/ op = [name |-> "search_by_keywords", keywords |-> ks]
          \/ \E n \in TopNs :
                op = [name |-> "search_similar", incident_keywords |-> ks, top_n |-> n]

NextCases == SearchByKeywords \/ SearchSimilar

SpecCases == InitCases /\ [][NextCases]_vars

-----------------------------------------------------------------------------
(* Claims about CaseLogParser, under SpecCases *)

CasesSearched == pc = "return" /\ op.name = "search_by_keywords"

\* C2: for a non-empty keyword list K, every match has matched_keywords
\* within K, similarity equal to (number of matched keywords) / |K|, and
\* similarity between 0 and 1.
C2_SimilarityIsMatchedOverQuery ==
    (CasesSearched /\ op.keywords # <<>>) =>
        \A i \in DOMAIN result :
            /\ Range(result[i].matched_keywords) \subseteq Range(op.keywords)
            /\ result[i].similarity.den > 0
            /\ FracEq(result[i].similarity,
                      Div(Len(result[i].matched_keywords), Len(op.keywords)))
            /\ ~FracLess(result[i].similarity, Div(0, 1))
            /\ ~FracLess(Div(1, 1), result[i].similarity)

\* two cases are scored, one below 1 and one at 1
C2_Witness ==
    /\ CasesSearched
    /\ Len(op.keywords) > 1
    /\ Len(cases) > 1
    /\ \E i, j \in DOMAIN result :
          /\ FracLess(result[i].similarity, Div(1, 1))
          /\ FracEq(result[j].similarity, Div(1, 1))

\* a case matches when its problem statement or its solution, in lower case
\* and joined by a space, contains a keyword in lower case
CaseMatches(case, keywords) ==
    \E i \in DOMAIN keywords :
        Contains(Lower(case.Problem_Statements) \o <<" ">> \o Lower(case.Solution),
                 Lower(keywords[i]))

\* the loaded cases that match, in load order
MatchingCases(keywords) ==
    LET Matches(case) == CaseMatches(case, keywords) IN SelectSeq(cases, Matches)

\* the ways to arrange 1..n
Arrangements(n) == {f \in [1..n -> 1..n] : \A i, j \in 1..n : i # j => f[i] # f[j]}

\* C19: for a non-empty keyword list, search_by_keywords returns exactly the
\* loaded cases that match at least one keyword, each once per time it is
\* loaded, with similarity never increasing along the list, and two returned
\* cases of equal similarity stand in the order they have in the loaded list.
C19_MatchingCasesBySimilarity ==
    (CasesSearched /\ op.keywords # <<>>) =>
        LET matching == MatchingCases(op.keywords)
        IN  /\ Len(result) = Len(matching)
            /\ \A i, j \in DOMAIN result :
                  i < j => ~FracLess(result[i].similarity, result[j].similarity)
            /\ \E from \in Arrangements(Len(matching)) :
                  /\ \A i \in DOMAIN result : result[i].case = matching[from[i]]
                  /\ \A i, j \in DOMAIN result :
                        (i < j /\ FracEq(result[i].similarity, result[j].similarity))
                            => from[i] < from[j]

\* two different cases of equal similarity, and a loaded case that is left out
C19_Witness ==
    /\ CasesSearched
    /\ Len(op.keywords) = 2
    /\ Len(result) = 2
    /\ result[1].case # result[2].case
    /\ FracEq(result[1].similarity, result[2].similarity)
    /\ FracLess(result[1].similarity, Div(1, 1))

SimilarSearched == pc = "return" /\ op.name = "search_similar"

\* C20: for every keyword list and every N >= 0, search_similar(keywords, N)
\* is the first min(N, length) elements of search_by_keywords(keywords), in
\* the same order.
C20_SimilarIsPrefixOfSearch ==
    SimilarSearched =>
        LET matches == search_by_keywords(op.incident_keywords)
        IN  /\ Len(result) = (IF op.top_n < Len(matches) THEN op.top_n ELSE Len(matches))
            /\ \A i \in DOMAIN result : result[i] = matches[i]

C20_Witness ==
    /\ SimilarSearched
    /\ op.top_n = 1
    /\ Len(search_by_keywords(op.incident_keywords)) = 2
    /\ Len(result) = 1
    /\ result[1] = search_by_keywords(op.incident_keywords)[1]
    /\ result[1] # search_by_keywords(op.incident_keywords)[2]

-----------------------------------------------------------------------------
(* EscalationContactsParser (parsers/contacts_parser.py) *)

\* get_contacts_by_module without the return inside the loop: the last name
\* that holds the key
get_contacts_by_module_last_match(module) ==
    LET hits == {i \in DOMAIN contacts_by_module :
                    Contains(Lower(contacts_by_module[i].key), Lower(module))}
    IN  IF hits = {} THEN <<>>
        ELSE contacts_by_module[CHOOSE i \in hits : \A j \in hits : i >= j].val

\* get_contacts_by_module: the contacts of the first loaded module name, in
\* load order, that contains the lookup key (both lower-cased)
get_contacts_by_module(module) ==
    LET hits == {i \in DOMAIN contacts_by_module :
                    Contains(Lower(contacts_by_module[i].key), Lower(module))}
    IN  IF hits = {} THEN <<>>
        ELSE contacts_by_module[CHOOSE i \in hits : \A j \in hits : i <= j].val

\* ['L3 Engineer', 'Engineer', 'Lead', 'Specialist', 'Owner', 'Manager']
priority_order ==
    <<<<"L","3"," ","E","n","g","i","n","e","e","r">>, <<"E","n","g","i","n","e","e","r">>, <<"L","e","a","d">>, <<"S","p","e","c","i","a","l","i","s","t">>, <<"O","w","n","e","r">>, <<"M","a","n","a","g","e","r">>>>

NoPriority == 999

\* get_priority: the 0-based index of the first priority role found in the role
get_priority(contact) ==
    LET role == Lower(contact.role)
        hits == {i \in DOMAIN priority_order : Contains(role, Lower(priority_order[i]))}
    IN  IF hits = {} THEN NoPriority
        ELSE (CHOOSE i \in hits : \A j \in hits : i <= j) - 1

LowerPriorityNumber(a, b) == get_priority(a) < get_priority(b)

\* 'Management'
Management ==
    <<"M","a","n","a","g","e","m","e","n","t">>

\* route_incident without contacts.sort(key=get_priority)
route_incident_unsorted(module, severity) ==
    get_contacts_by_module(module)
        \o (IF severity \in {"HIGH", "CRITICAL"}
            THEN get_contacts_by_module(Management) ELSE <<>>)

\* route_incident: the module's contacts, then Management's for HIGH and
\* CRITICAL, sorted by role priority
route_incident(module, severity) ==
    LET module_contacts == get_contacts_by_module(module)
        mgmt_contacts == IF severity \in {"HIGH", "CRITICAL"}
                         THEN get_contacts_by_module(Management) ELSE <<>>
    IN  StableSort(module_contacts \o mgmt_contacts, LowerPriorityNumber)

\* route_incident with `contacts = self.get_contacts_by_module(module)`: the
\* list that is extended and sorted is the stored group itself
route_incident_in_place(module, severity) ==
    LET hits == {i \in DOMAIN contacts_by_module :
                    Contains(Lower(contacts_by_module[i].key), Lower(module))}
    IN  IF hits = {} THEN contacts_by_module
        ELSE [contacts_by_module
                 EXCEPT ![CHOOSE i \in hits : \A j \in hits : i <= j].val =
                            route_incident(module, severity)]

\* contacts_by_module after route_incident: `contacts = []` is a new list, so
\* extend and sort act on it and the stored groups stay the lists they were
route_incident_contacts_by_module(module, severity) == contacts_by_module

-----------------------------------------------------------------------------
(* Contact directories: groups in the order their headers were read *)

MaxGroups == 3

Contact(name, role, email, module) ==
    [name |-> name, role |-> role, email |-> email, module |-> module]

\* 'EDI', 'Vessel', 'Vessel Registry', 'Change Management'
EDI ==
    <<"E","D","I">>

Vessel ==
    <<"V","e","s","s","e","l">>

VesselRegistry ==
    <<"V","e","s","s","e","l"," ","R","e","g","i","s","t","r","y">>

ChangeManagement ==
    <<"C","h","a","n","g","e"," ","M","a","n","a","g","e","m","e","n","t">>

GroupEdi ==
    Item(EDI, <<Contact("Alice", <<"L","3"," ","E","n","g","i","n","e","e","r">>, "alice@psa.com", EDI)>>)

GroupVessel ==
    Item(Vessel, <<Contact("Bob", <<"T","e","a","m"," ","L","e","a","d">>, "bob@psa.com", Vessel),
                   Contact("Carol", <<"D","B","A">>, "carol@psa.com", Vessel),
                   Contact("Hal", <<"D","u","t","y"," ","M","a","n","a","g","e","r">>, "hal@psa.com", Vessel)>>)

GroupVesselRegistry ==
    Item(VesselRegistry,
         <<Contact("Dan", <<"S","p","e","c","i","a","l","i","s","t">>, "dan@psa.com", VesselRegistry),
           Contact("Ida", <<"R","e","g","i","s","t","r","y"," ","S","p","e","c","i","a","l","i","s","t">>, "ida@psa.com", VesselRegistry)>>)

GroupManagement ==
    Item(Management,
         <<Contact("Erin", <<"S","e","n","i","o","r"," ","M","a","n","a","g","e","r">>, "erin@psa.com", Management),
           Contact("Faye", <<"P","r","o","d","u","c","t"," ","O","w","n","e","r">>, "faye@psa.com", Management)>>)

GroupChangeManagement ==
    Item(ChangeManagement,
         <<Contact("Gus", <<"E","n","g","i","n","e","e","r">>, "gus@psa.com", ChangeManagement)>>)

Groups ==
    <<GroupEdi, GroupVessel, GroupVesselRegistry, GroupManagement, GroupChangeManagement>>

Directories ==
    UNION {{[i \in 1..n |-> Groups[q[i]]] :
              q \in {r \in [1..n -> DOMAIN Groups] :
                        \A i, j \in 1..n : i # j => r[i] # r[j]}} : n \in 0..MaxGroups}

\* the modules _identify_module names, the ones the tests look up, and a key
\* in lower case
ModuleArguments ==
    {<<"E","D","I","/","A","P","I">>, EDI, Vessel, <<"C","o","n","t","a","i","n","e","r">>, Management,
     Lower(Vessel)}

Severities == {"LOW", "MEDIUM", "HIGH", "CRITICAL"}

\* EscalationContactsParser.get_contacts_by_module(module)
GetContactsByModule ==
    /\ pc = "call"
    /\ op.name = "get_contacts_by_module"
    /\ result' = get_contacts_by_module(op.module)
    /\ pc' = "return"
    /\ UNCHANGED <<op, files, loaded>>

\* EscalationContactsParser.route_incident(module, severity)
RouteIncident ==
    /\ pc = "call"
    /\ op.name = "route_incident"
    /\ result' = route_incident(op.module, op.severity)
    /\ contacts_by_module' = route_incident_contacts_by_module(op.module, op.severity)
    /\ pc' = "return"
    /\ UNCHANGED <<op, files, logs_cache, cases, sections, content, engine>>

InitContacts ==
    /\ logs_cache = <<>>
    /\ cases = <<>>
    /\ sections = <<>>
    /\ content = <<>>
    /\ contacts_by_module \in Directories
    /\ engine = "none"
    /\ files = <<>>
    /\ pc = "call"
    /\ result = <<>>
    /\ \E module \in ModuleArguments :
          \/ op = [name |-> "get_contacts_by_module", module |-> module]
          \/ \E severity \in Severities :
                op = [name |-> "route_incident", module |-> module, severity |-> severity]

NextContacts == GetContactsByModule \/ RouteIncident

SpecContacts == InitContacts /\ [][NextContacts]_vars

-----------------------------------------------------------------------------
(* Claims about EscalationContactsParser, under SpecContacts *)

Routed == pc = "return" /\ op.name = "route_incident"

LookedUp == pc = "return" /\ op.name = "get_contacts_by_module"

\* the contacts of every loaded group whose name is the given one, in any case
ContactsOfGroupNamed(name) ==
    UNION {Range(contacts_by_module[i].val) :
             i \in {j \in DOMAIN contacts_by_module :
                      Lower(contacts_by_module[j].key) = Lower(name)}}

\* C3: with a group named Management loaded and severity HIGH or CRITICAL,
\* route_incident returns every contact of the Management group and every
\* contact of the module's own group.
C3_HighSeverityReachesManagement ==
    (Routed /\ op.severity \in {"HIGH", "CRITICAL"}
            /\ Management \in Keys(contacts_by_module)) =>
        /\ ContactsOfGroupNamed(Management) \subseteq Range(result)
        /\ ContactsOfGroupNamed(op.module) \subseteq Range(result)

\* the lookup key and the module name match when either contains the other
MatchesBothWays(key, name) ==
    \/ Contains(Lower(name), Lower(key))
    \/ Contains(Lower(key), Lower(name))

\* C8: get_contacts_by_module matches a loaded module name when, in lower
\* case, the name contains the key or the key contains the name: it returns
\* the contacts of the first such name, and nothing only when there is none.
C8_LookupMatchesBothWays ==
    LookedUp =>
        LET hits == {i \in DOMAIN contacts_by_module :
                        MatchesBothWays(op.module, contacts_by_module[i].key)}
        IN  IF hits = {} THEN result = <<>>
            ELSE result = contacts_by_module[CHOOSE i \in hits : \A j \in hits : i <= j].val

\* the 0-based position of the first priority role, from position i on, that
\* the role contains in lower case; the length of the list when there is none
RECURSIVE FirstPriorityRole(_, _)
FirstPriorityRole(role, i) ==
    IF i > Len(priority_order) THEN Len(priority_order)
    ELSE IF Contains(Lower(role), Lower(priority_order[i])) THEN i - 1
    ELSE FirstPriorityRole(role, i + 1)

RolePriority(contact) == FirstPriorityRole(contact.role, 1)

OfPriority(contacts, k) ==
    LET HasPriority(contact) == RolePriority(contact) = k
    IN  SelectSeq(contacts, HasPriority)

\* the module's contacts, then those the lookup of 'Management' gives for HIGH
\* and CRITICAL, each in load order
Collected ==
    get_contacts_by_module(op.module)
        \o (IF op.severity \in {"HIGH", "CRITICAL"}
            THEN get_contacts_by_module(Management) ELSE <<>>)

\* C15: the list route_incident returns is in role-priority order: the
\* priority of a contact is the position of the first of L3 Engineer, Engineer,
\* Lead, Specialist, Owner, Manager that its role contains in any case, a
\* contact with none of them comes last, priorities never decrease along the
\* list, and the contacts of one priority are in the order module contacts
\* first, then Management contacts, each in load order.
C15_RoutedByRolePriority ==
    Routed =>
        /\ \A i, j \in DOMAIN result :
              i < j => RolePriority(result[i]) <= RolePriority(result[j])
        /\ \A k \in 0..Len(priority_order) :
              OfPriority(result, k) = OfPriority(Collected, k)

C15_Witness ==
    /\ Routed
    /\ result # Collected
    /\ \E i, j \in DOMAIN result :
          /\ i < j
          /\ result[i] # result[j]
          /\ RolePriority(result[i]) = RolePriority(result[j])
          /\ result[i].module # result[j].module
    /\ \E i \in DOMAIN result : RolePriority(result[i]) = Len(priority_order)

-----------------------------------------------------------------------------
(* ApplicationLogParser: the views derived from search_logs *)

\* the characters of a timestamp, in code point order
CodePoints ==
    <<"-", ".", "0", "1", "2", "3", "4", "5", "6", "7", "8", "9", ":", "T", "Z">>

Ord(c) == CHOOSE i \in DOMAIN CodePoints : CodePoints[i] = c

\* str < str: at the first position where they differ, or the shorter first
StrLess(s, t) ==
    \E k \in 1..(Len(t)) :
        /\ \A j \in 1..(k - 1) : j <= Len(s) /\ s[j] = t[j]
        /\ \/ k = Len(s) + 1
           \/ k <= Len(s) /\ Ord(s[k]) < Ord(t[k])

\* list(set(xs)): the values once each, in an order the program does not fix
ListsOfSet(S) == {q \in [1..Cardinality(S) -> S] : Range(q) = S}

\* the entries of the given level, by service; a service without one is no key
EntriesOfLevel(all_results, level) ==
    LET IsLevel(e) == e.level = level
        filtered == [i \in DOMAIN all_results |->
                        Item(all_results[i].key, SelectSeq(all_results[i].val, IsLevel))]
        NonEmpty(item) == item.val # <<>>
    IN  SelectSeq(filtered, NonEmpty)

\* get_errors_only that searches for the word ERROR, not for the search terms
get_errors_only_of_every_line(search_terms) ==
    EntriesOfLevel(search_logs(<<ERROR>>), ERROR)

get_errors_only(search_terms) == EntriesOfLevel(search_logs(search_terms), ERROR)

get_warnings_only(search_terms) == EntriesOfLevel(search_logs(search_terms), WARN)

\* entry['service'] = service, on the entries of build_timeline's own search
TimelineEntry(entry, service) ==
    [line_num |-> entry.line_num, timestamp |-> entry.timestamp, level |-> entry.level,
     component |-> entry.component, message |-> entry.message, raw |-> entry.raw,
     service |-> service]

\* a sort key that puts an entry without a timestamp after every timestamp
TimelineKey_absent_last(x) == IF x.timestamp = None THEN <<"Z">> ELSE x.timestamp

\* x['timestamp'] if x['timestamp'] else ''
TimelineKey(x) == IF x.timestamp = None THEN <<>> ELSE x.timestamp

EarlierTimestamp(a, b) == StrLess(TimelineKey(a), TimelineKey(b))

\* every entry of every service, in service and line order
FlatTimeline(all_results) ==
    Flatten([i \in DOMAIN all_results |->
                [j \in DOMAIN all_results[i].val |->
                    TimelineEntry(all_results[i].val[j], all_results[i].key)]])

build_timeline(search_terms) ==
    StableSort(FlatTimeline(search_logs(search_terms)), EarlierTimestamp)

\* list(results.keys())
KeyList(dict) == [i \in DOMAIN dict |-> dict[i].key]

get_affected_services(search_terms) == KeyList(search_logs(search_terms))

\* sum(len(entries) for entries in results.values())
RECURSIVE TotalEntries(_)
TotalEntries(results) ==
    IF results = <<>> THEN 0
    ELSE Len(results[1].val) + TotalEntries(Tail(results))

\* level_counts: a count per level, the levels in the order they first occur
LevelCounts(entries) ==
    LET levels == Dedup([i \in DOMAIN entries |-> entries[i].level])
    IN  [k \in DOMAIN levels |->
            Item(levels[k],
                 Cardinality({i \in DOMAIN entries : entries[i].level = levels[k]}))]

\* dict.get(key, default)
Get(dict, key, default) ==
    IF \E i \in DOMAIN dict : dict[i].key = key
    THEN dict[CHOOSE i \in DOMAIN dict : dict[i].key = key].val
    ELSE default

\* the messages of the entries of every level
ErrorMessages_of_every_level(results) ==
    LET all == Flatten(Values(results))
    IN  [i \in DOMAIN all |-> all[i].message]

\* the messages of the ERROR entries, in service and line order
ErrorMessages(results) ==
    LET IsError(e) == e.level = ERROR
        all == Flatten(Values(results))
        errors == SelectSeq(all, IsError)
    IN  [i \in DOMAIN errors |-> errors[i].message]

\* analyze_patterns; unique_errors is list(set(error_messages)) in the order
\* the set happened to be iterated
PatternsOf(results, level_counts, unique_errors) ==
    [total_entries     |-> TotalEntries(results),
     affected_services |-> KeyList(results),
     level_counts      |-> level_counts,
     service_counts    |-> [i \in DOMAIN results |->
                               Item(results[i].key, Len(results[i].val))],
     unique_errors     |-> unique_errors,
     error_count       |-> Get(level_counts, ERROR, 0),
     warning_count     |-> Get(level_counts, WARN, 0)]

CountLevels(results, unique_errors) ==
    PatternsOf(results, LevelCounts(Flatten(Values(results))), unique_errors)

analyze_patterns(search_terms, unique_errors) ==
    CountLevels(search_logs(search_terms), unique_errors)

\* the orders list(set(error_messages)) can come out in
UniqueErrorsOrders(search_terms) ==
    ListsOfSet(Range(ErrorMessages(search_logs(search_terms))))

-----------------------------------------------------------------------------
(* KnowledgeBaseParser (parsers/knowledge_base_parser.py) *)

Section(title, section_content) == [title |-> title, content |-> section_content]

KbMatch(section_title, section_content, relevance, matched_keywords) ==
    [section_title |-> section_title, content |-> section_content,
     relevance |-> relevance, matched_keywords |-> matched_keywords]

\* 'Full Document'
FullDocument ==
    <<"F","u","l","l"," ","D","o","c","u","m","e","n","t">>

HigherRelevance(a, b) == FracLess(b.relevance, a.relevance)

\* the match of one title and body, or nothing when no keyword is found
ScoreText(section_title, section_content, combined, keywords) ==
    LET keyword_matches == CountMatches(keywords, combined)
    IN  IF keyword_matches > 0
        THEN <<KbMatch(section_title, section_content,
                       Div(keyword_matches, Len(keywords)),
                       MatchedKeywords(keywords, combined))>>
        ELSE <<>>

\* search_by_keywords that looks for the keywords in the section's content
\* only, not in its title
KnowledgeBaseParser_search_by_keywords_in_content(keywords) ==
    IF keywords = <<>> THEN <<>>
    ELSE LET matches ==
                 IF sections # <<>>
                 THEN Flatten([i \in DOMAIN sections |->
                         ScoreText(sections[i].title, sections[i].content,
                                   Lower(sections[i].content), keywords)])
                 ELSE ScoreText(FullDocument, content, Lower(content), keywords)
         IN  StableSort(matches, HigherRelevance)

\* KnowledgeBaseParser.search_by_keywords: the sections, or without sections
\* the whole document as one
KnowledgeBaseParser_search_by_keywords(keywords) ==
    IF keywords = <<>> THEN <<>>
    ELSE LET matches ==
                 IF sections # <<>>
                 THEN Flatten([i \in DOMAIN sections |->
                         ScoreText(sections[i].title, sections[i].content,
                                   Join2(Lower(sections[i].title), Lower(sections[i].content)),
                                   keywords)])
                 ELSE ScoreText(FullDocument, content, Lower(content), keywords)
         IN  StableSort(matches, HigherRelevance)

\* ['step', 'procedure', 'sop', '1.', '2.']
ProcedureIndicators ==
    <<<<"s","t","e","p">>, <<"p","r","o","c","e","d","u","r","e">>, <<"s","o","p">>, <<"1",".">>, <<"2",".">>>>

search_procedures(keywords) ==
    LET matches == KnowledgeBaseParser_search_by_keywords(keywords)
        IsProcedure(match) == AnyWordIn(ProcedureIndicators, Lower(match.content))
        procedures == SelectSeq(matches, IsProcedure)
    IN  [i \in DOMAIN procedures |-> procedures[i].content]

-----------------------------------------------------------------------------
(* ContextGatherer (analyzers/context_gatherer.py) *)

\* None where a dict is expected
Absent == [absent |-> TRUE]

\* _get_search_terms that also extends the terms with the incident's keywords
_get_search_terms_and_keywords(parsed_incident) ==
    UNION {Range(parsed_incident.entities[k]) : k \in DOMAIN parsed_incident.entities}
        \cup Range(parsed_incident.keywords)

\* _get_search_terms: set(search_terms), every entity value
_get_search_terms(parsed_incident) ==
    UNION {Range(parsed_incident.entities[k]) : k \in DOMAIN parsed_incident.entities}

\* the dict _search_logs returns when there are search terms
LogContext(results, errors, warnings, timeline, affected_services, analysis) ==
    [results           |-> results,
     errors            |-> errors,
     warnings          |-> warnings,
     timeline          |-> Take(timeline, 20),
     affected_services |-> affected_services,
     analysis          |-> analysis,
     summary           |-> <<TotalEntries(results), "entries in", Len(results), "services">>]

\* _search_logs: search_terms and unique_errors in the order their sets gave
_search_logs(search_terms, unique_errors) ==
    IF search_terms = <<>>
    THEN [results |-> <<>>, summary |-> "No search terms"]
    ELSE LogContext(search_logs(search_terms), get_errors_only(search_terms),
                    get_warnings_only(search_terms), build_timeline(search_terms),
                    get_affected_services(search_terms),
                    analyze_patterns(search_terms, unique_errors))

CaseContext(similar_cases, module_cases) ==
    [similar_cases |-> similar_cases,
     module_cases  |-> Take(module_cases, 5),
     total_similar |-> Len(similar_cases),
     summary       |-> <<Len(similar_cases), "similar cases found">>]

_search_cases(keywords, module) ==
    CaseContext(search_similar(keywords, 5), search_by_module(module))

KbContext(articles, procedures) ==
    [articles       |-> Take(articles, 5),
     procedures     |-> Take(procedures, 3),
     total_articles |-> Len(articles),
     summary        |-> <<Len(articles), "articles found">>]

_search_kb(keywords) ==
    KbContext(KnowledgeBaseParser_search_by_keywords(keywords), search_procedures(keywords))

ContactContext(routed, module) ==
    [contacts |-> routed,
     total    |-> Len(routed),
     summary  |-> <<Len(routed), "contacts for", module>>]

_get_escalation_contacts(module, severity) ==
    ContactContext(route_incident(module, severity), module)

\* the first three ERROR entries of each service
KeyErrorMessages(errors) ==
    Flatten([i \in DOMAIN errors |->
        LET top == Take(errors[i].val, 3)
        IN  [j \in DOMAIN top |->
                [service   |-> errors[i].key,
                 timestamp |-> top[j].timestamp,
                 message   |-> Take(top[j].message, 200)]]])

\* _analyze_logs with the flags raised from one below the threshold on
_analyze_logs_from_threshold(log_context) ==
    LET analysis == log_context.analysis
        timeline == log_context.timeline
    IN  [error_messages    |-> KeyErrorMessages(log_context.errors),
         patterns          |->
             (IF analysis.error_count >= 5 THEN <<"Multiple errors detected">> ELSE <<>>)
             \o (IF Len(log_context.affected_services) >= 2
                 THEN <<"Multiple services affected">> ELSE <<>>)
             \o (IF timeline # <<>> /\ Len(timeline) >= 3
                 THEN <<"Errors occurred in sequence">> ELSE <<>>),
         error_count       |-> analysis.error_count,
         warning_count     |-> analysis.warning_count,
         affected_services |-> log_context.affected_services]

_analyze_logs(log_context) ==
    LET analysis == log_context.analysis
        timeline == log_context.timeline
    IN  [error_messages    |-> KeyErrorMessages(log_context.errors),
         patterns          |->
             (IF analysis.error_count > 5 THEN <<"Multiple errors detected">> ELSE <<>>)
             \o (IF Len(log_context.affected_services) > 2
                 THEN <<"Multiple services affected">> ELSE <<>>)
             \o (IF timeline # <<>> /\ Len(timeline) > 3
                 THEN <<"Errors occurred in sequence">> ELSE <<>>),
         error_count       |-> analysis.error_count,
         warning_count     |-> analysis.warning_count,
         affected_services |-> log_context.affected_services]

\* the context with the analysis derived whenever there were search terms
Context_analysed_for_any_terms(parsed_incident, search_terms, logs) ==
    [search_terms        |-> search_terms,
     logs                |-> logs,
     historical_cases    |-> _search_cases(parsed_incident.keywords, parsed_incident.module),
     knowledge_base      |-> _search_kb(parsed_incident.keywords),
     escalation_contacts |-> _get_escalation_contacts(parsed_incident.module,
                                                      parsed_incident.severity),
     log_analysis        |-> IF search_terms # <<>> THEN _analyze_logs(logs) ELSE Absent]

\* gather: the Context of one incident
Context(parsed_incident, search_terms, logs) ==
    [search_terms        |-> search_terms,
     logs                |-> logs,
     historical_cases    |-> _search_cases(parsed_incident.keywords, parsed_incident.module),
     knowledge_base      |-> _search_kb(parsed_incident.keywords),
     escalation_contacts |-> _get_escalation_contacts(parsed_incident.module,
                                                      parsed_incident.severity),
     log_analysis        |-> IF logs.results # <<>> THEN _analyze_logs(logs) ELSE Absent]

gather(parsed_incident, search_terms, unique_errors) ==
    Context(parsed_incident, search_terms, _search_logs(search_terms, unique_errors))

-----------------------------------------------------------------------------
(* The engine: ContextGatherer() loads the four sources, gather() searches  *)
(* them for one parsed incident.                                            *)

\* the module names of _identify_module as str
Spell(module) ==
    CASE module = "EDI/API"   -> <<"E","D","I","/","A","P","I">>
      [] module = "Vessel"    -> <<"V","e","s","s","e","l">>
      [] module = "Container" -> <<"C","o","n","t","a","i","n","e","r">>
      [] module = "Booking"   -> <<"B","o","o","k","i","n","g">>
      [] module = "Database"  -> <<"D","a","t","a","b","a","s","e">>
      [] module = "General"   -> <<"G","e","n","e","r","a","l">>

\* a source file that opens and reads, and one that does not
File(data) == [readable |-> TRUE, data |-> data]

Unreadable == [readable |-> FALSE]

\* '2025-10-09T08:25:31.500Z ERROR edi REF-IFT-0007 CMAU0000020 rejected\n'
LineEdiError ==
    <<"2","0","2","5","-","1","0","-","0","9","T","0","8",":","2","5",":","3","1",".","5","0","0","Z"," ","E","R","R","O","R"," ","e","d","i"," ","R","E","F","-","I","F","T","-","0","0","0","7"," ","C","M","A","U","0","0","0","0","0","2","0"," ","r","e","j","e","c","t","e","d","\n">>

KbWithSections ==
    [sections |-> <<Section(<<"E","D","I"," ","s","t","u","c","k"," ","m","e","s","s","a","g","e","s">>, <<"S","t","e","p"," ","1","."," ","r","e","s","e","n","d"," ","t","h","e"," ","m","e","s","s","a","g","e">>),
                    Section(<<"D","u","p","l","i","c","a","t","e"," ","c","o","n","t","a","i","n","e","r","s">>, <<"R","e","m","o","v","e"," ","t","h","e"," ","d","u","p","l","i","c","a","t","e"," ","r","e","c","o","r","d">>)>>,
     content  |-> <<"E","D","I"," ","s","t","u","c","k"," ","m","e","s","s","a","g","e","s","\n","S","t","e","p"," ","1","."," ","r","e","s","e","n","d"," ","t","h","e"," ","m","e","s","s","a","g","e","\n","D","u","p","l","i","c","a","t","e"," ","c","o","n","t","a","i","n","e","r","s","\n","R","e","m","o","v","e"," ","t","h","e"," ","d","u","p","l","i","c","a","t","e"," ","r","e","c","o","r","d">>]

KbWithoutSections ==
    [sections |-> <<>>,
     content  |-> <<"D","u","p","l","i","c","a","t","e"," ","c","o","n","t","a","i","n","e","r"," ","p","r","o","c","e","d","u","r","e","\n","a","s","k"," ","t","h","e"," ","v","e","s","s","e","l"," ","t","e","a","m">>]

CaseLogFiles == {Unreadable, File(<<CaseDuplicate, CaseEdi>>), File(<<CaseVessel>>)}

KnowledgeBaseFiles == {Unreadable, File(KbWithSections), File(KbWithoutSections)}

ContactsFiles == {Unreadable, File(<<GroupEdi, GroupManagement>>)}

LogFiles ==
    {<<Item("container", c), Item("edi_advice", e)>> :
        c \in {Unreadable, File(<<LineError, LineNoGrammar>>)},
        e \in {Unreadable, File(<<LineWarn, LineEdiError>>)}}

\* _load_all_logs: a file that cannot be read is an empty list of lines
_load_all_logs(log_files) ==
    [i \in DOMAIN log_files |->
        Item(log_files[i].key,
             IF log_files[i].val.readable THEN log_files[i].val.data ELSE <<>>)]

\* ContextGatherer(): the four parsers in turn; _load_cases, _load_document
\* and _load_contacts raise when the file cannot be read, and nothing after
\* the raise runs
Construct ==
    /\ pc = "call"
    /\ op.name = "ContextGatherer"
    /\ LET case_log_parser == files.case_log.readable
           kb_parser       == case_log_parser /\ files.knowledge_base.readable
           contacts_parser == kb_parser /\ files.contacts.readable
       IN  /\ cases' = IF case_log_parser THEN files.case_log.data ELSE cases
           /\ sections' = IF kb_parser THEN files.knowledge_base.data.sections ELSE sections
           /\ content' = IF kb_parser THEN files.knowledge_base.data.content ELSE content
           /\ contacts_by_module' =
                 IF contacts_parser THEN files.contacts.data ELSE contacts_by_module
           /\ logs_cache' = IF contacts_parser THEN _load_all_logs(files.logs) ELSE logs_cache
           /\ engine' = IF contacts_parser THEN "ready" ELSE "raised"
           /\ result' =
                 IF ~case_log_parser THEN [raised |-> "Failed to load case log"]
                 ELSE IF ~kb_parser THEN [raised |-> "Failed to load knowledge base"]
                 ELSE IF ~contacts_parser
                      THEN [raised |-> "Failed to load escalation contacts"]
                 ELSE [raised |-> "nothing"]
    /\ pc' = "return"
    /\ UNCHANGED <<op, files>>

GatherTexts ==
    {JoinSpace(<<PhraseContainer, PhraseDuplicate>>), PhraseHello, PhraseUrgentMail,
     JoinSpace(<<PhraseContainer, REF_IFT_0007>>)}

\* IncidentParser().parse(text) of each text
ParsedIncidents == {parse(text) : text \in GatherTexts}

\* the caller parses an incident and hands it to gather; keywords is
\* list(set(...)), in any order
CallGather ==
    /\ pc = "return"
    /\ engine = "ready"
    /\ \E parsed_incident \in ParsedIncidents :
          \E keywords \in ListsOfSet(parsed_incident.keywords) :
             op' = [name |-> "gather",
                    parsed_incident |->
                        [parsed_incident EXCEPT !.keywords = keywords,
                                                !.module = Spell(parsed_incident.module)]]
    /\ pc' = "call"
    /\ UNCHANGED <<result, files, loaded>>

\* ContextGatherer.gather(parsed_incident)
Gather ==
    /\ pc = "call"
    /\ op.name = "gather"
    /\ \E search_terms \in ListsOfSet(_get_search_terms(op.parsed_incident)) :
          \E unique_errors \in UniqueErrorsOrders(search_terms) :
             result' = gather(op.parsed_incident, search_terms, unique_errors)
    /\ contacts_by_module' =
          route_incident_contacts_by_module(op.parsed_incident.module,
                                            op.parsed_incident.severity)
    /\ pc' = "return"
    /\ UNCHANGED <<op, files, logs_cache, cases, sections, content, engine>>

InitEngine ==
    /\ logs_cache = <<>>
    /\ cases = <<>>
    /\ sections = <<>>
    /\ content = <<>>
    /\ contacts_by_module = <<>>
    /\ engine = "none"
    /\ files \in [case_log : CaseLogFiles, knowledge_base : KnowledgeBaseFiles,
                  contacts : ContactsFiles, logs : LogFiles]
    /\ op = [name |-> "ContextGatherer"]
    /\ pc = "call"
    /\ result = <<>>

NextEngine == Construct \/ CallGather \/ Gather

SpecEngine == InitEngine /\ [][NextEngine]_vars

-----------------------------------------------------------------------------
(* Claims about the engine, under SpecEngine *)

Constructed == pc = "return" /\ op.name = "ContextGatherer"

Gathered == pc = "return" /\ op.name = "gather"

\* the sources with a file that cannot be read
UnreadableSources ==
    {s \in {"case_log", "knowledge_base", "contacts"} : ~files[s].readable}
    \cup (IF \E i \in DOMAIN files.logs : ~files.logs[i].val.readable
          THEN {"logs"} ELSE {})

UnreadableServices ==
    {files.logs[i].key : i \in {j \in DOMAIN files.logs : ~files.logs[j].val.readable}}

\* C9: when exactly one source cannot be loaded, ContextGatherer() returns an
\* engine and gather returns a Context; the source is an empty collection
\* and the Context has no match from it.
C9_UnreadableSourceIsEmptyCollection ==
    ((Constructed \/ Gathered) /\ Cardinality(UnreadableSources) = 1) =>
        /\ engine = "ready"
        /\ "case_log" \in UnreadableSources =>
              /\ cases = <<>>
              /\ Gathered => /\ result.historical_cases.similar_cases = <<>>
                             /\ result.historical_cases.module_cases = <<>>
        /\ "knowledge_base" \in UnreadableSources =>
              /\ sections = <<>>
              /\ Gathered => /\ result.knowledge_base.articles = <<>>
                             /\ result.knowledge_base.procedures = <<>>
        /\ "contacts" \in UnreadableSources =>
              /\ contacts_by_module = <<>>
              /\ Gathered => result.escalation_contacts.contacts = <<>>
        /\ "logs" \in UnreadableSources =>
              /\ \A i \in DOMAIN logs_cache :
                    logs_cache[i].key \in UnreadableServices => logs_cache[i].val = <<>>
              /\ Gathered => Keys(result.logs.results) \cap UnreadableServices = {}


-----------------------------------------------------------------------------
(* A session with a constructed engine: the caller makes one call after    *)
(* another to the gatherer and to the parsers it holds.                     *)

\* ApplicationLogParser.get_errors_only(search_terms)
GetErrorsOnly ==
    /\ pc = "call"
    /\ op.name = "get_errors_only"
    /\ result' = get_errors_only(op.search_terms)
    /\ pc' = "return"
    /\ UNCHANGED <<op, files, loaded>>

\* ApplicationLogParser.get_warnings_only(search_terms)
GetWarningsOnly ==
    /\ pc = "call"
    /\ op.name = "get_warnings_only"
    /\ result' = get_warnings_only(op.search_terms)
    /\ pc' = "return"
    /\ UNCHANGED <<op, files, loaded>>

\* ApplicationLogParser.build_timeline(search_terms)
BuildTimeline ==
    /\ pc = "call"
    /\ op.name = "build_timeline"
    /\ result' = build_timeline(op.search_terms)
    /\ pc' = "return"
    /\ UNCHANGED <<op, files, loaded>>

\* ApplicationLogParser.get_affected_services(search_terms)
GetAffectedServices ==
    /\ pc = "call"
    /\ op.name = "get_affected_services"
    /\ result' = get_affected_services(op.search_terms)
    /\ pc' = "return"
    /\ UNCHANGED <<op, files, loaded>>

\* ApplicationLogParser.analyze_patterns(search_terms)
AnalyzePatterns ==
    /\ pc = "call"
    /\ op.name = "analyze_patterns"
    /\ \E unique_errors \in UniqueErrorsOrders(op.search_terms) :
          result' = analyze_patterns(op.search_terms, unique_errors)
    /\ pc' = "return"
    /\ UNCHANGED <<op, files, loaded>>

\* CaseLogParser.search_by_module(module)
SearchByModule ==
    /\ pc = "call"
    /\ op.name = "search_by_module"
    /\ result' = search_by_module(op.module)
    /\ pc' = "return"
    /\ UNCHANGED <<op, files, loaded>>

\* KnowledgeBaseParser.search_by_keywords(keywords)
KnowledgeBaseSearchByKeywords ==
    /\ pc = "call"
    /\ op.name = "KnowledgeBaseParser.search_by_keywords"
    /\ result' = KnowledgeBaseParser_search_by_keywords(op.keywords)
    /\ pc' = "return"
    /\ UNCHANGED <<op, files, loaded>>

\* KnowledgeBaseParser.search_procedures(keywords)
SearchProcedures ==
    /\ pc = "call"
    /\ op.name = "search_procedures"
    /\ result' = search_procedures(op.keywords)
    /\ pc' = "return"
    /\ UNCHANGED <<op, files, loaded>>

SearchTermArguments ==
    {<<>>, <<CMAU0000020>>, <<REF>>, <<REF_IFT_0007, CMAU0000020>>}

KeywordArguments ==
    {<<>>, <<<<"d","u","p","l","i","c","a","t","e">>>>, <<<<"e","r","r","o","r">>, <<"v","e","s","s","e","l">>>>, <<<<"E","D","I">>, <<"t","i","m","e","o","u","t">>>>}

\* the keywords of a parsed incident as a list, the module as str
GatherArguments ==
    UNION {{[parsed_incident EXCEPT !.keywords = keywords,
                                    !.module = Spell(parsed_incident.module)] :
               keywords \in ListsOfSet(parsed_incident.keywords)} :
            parsed_incident \in ParsedIncidents}

Calls ==
    {[name |-> n, search_terms |-> ts] :
        n \in {"search_logs", "get_errors_only", "get_warnings_only", "build_timeline",
               "get_affected_services", "analyze_patterns"},
        ts \in SearchTermArguments}
    \cup {[name |-> n, keywords |-> ks] :
            n \in {"search_by_keywords", "KnowledgeBaseParser.search_by_keywords",
                   "search_procedures"},
            ks \in KeywordArguments}
    \cup {[name |-> "search_similar", incident_keywords |-> ks, top_n |-> n] :
            ks \in KeywordArguments, n \in {1, 3}}
    \cup {[name |-> "search_by_module", module |-> m] : m \in ModuleArguments}
    \cup {[name |-> "route_incident", module |-> m, severity |-> s] :
            m \in ModuleArguments, s \in {"MEDIUM", "HIGH"}}
    \cup {[name |-> "gather", parsed_incident |-> p] : p \in GatherArguments}

\* the caller's next call; what the last one returned is dropped
Call ==
    /\ pc = "return"
    /\ engine = "ready"
    /\ op' \in Calls
    /\ pc' = "call"
    /\ result' = <<>>
    /\ UNCHANGED <<files, loaded>>

\* the files every parser could load, but for a log file or two
LoadableFiles ==
    [case_log : CaseLogFiles \ {Unreadable},
     knowledge_base : KnowledgeBaseFiles \ {Unreadable},
     contacts : ContactsFiles \ {Unreadable}, logs : LogFiles]

\* the engine as ContextGatherer() left it
InitSession ==
    /\ files \in LoadableFiles
    /\ logs_cache = _load_all_logs(files.logs)
    /\ cases = files.case_log.data
    /\ sections = files.knowledge_base.data.sections
    /\ content = files.knowledge_base.data.content
    /\ contacts_by_module = files.contacts.data
    /\ engine = "ready"
    /\ op = [name |-> "ContextGatherer"]
    /\ pc = "return"
    /\ result = [raised |-> "nothing"]

NextSession ==
    \/ Call
    \/ SearchLogs \/ GetErrorsOnly \/ GetWarningsOnly \/ BuildTimeline
    \/ GetAffectedServices \/ AnalyzePatterns
    \/ SearchByKeywords \/ SearchSimilar \/ SearchByModule
    \/ KnowledgeBaseSearchByKeywords \/ SearchProcedures
    \/ RouteIncident \/ Gather

SpecSession == InitSession /\ [][NextSession]_vars


-----------------------------------------------------------------------------
(* Claims about the calls of a session, under SpecSession *)

Returned(name) == pc = "return" /\ op.name = name

LogViews ==
    {"search_logs", "get_errors_only", "get_warnings_only", "build_timeline",
     "get_affected_services"}

KeywordSearches ==
    {"search_by_keywords", "KnowledgeBaseParser.search_by_keywords", "search_procedures"}

SomeLogLine == \E i \in DOMAIN logs_cache : logs_cache[i].val # <<>>

\* C11: a call with an empty search-term list or an empty keyword list
\* returns, and returns an empty collection: the five log views are empty,
\* analyze_patterns counts zero entries, gather's logs section has empty
\* results, and the case and knowledge-base searches return empty lists.
C11_EmptyInputYieldsEmptyOutput ==
    /\ \A name \in LogViews :
          (Returned(name) /\ op.search_terms = <<>>) => result = <<>>
    /\ (Returned("analyze_patterns") /\ op.search_terms = <<>>) =>
          /\ result.total_entries = 0
          /\ result.affected_services = <<>>
          /\ result.error_count = 0
          /\ result.warning_count = 0
    /\ (Returned("gather") /\ _get_search_terms(op.parsed_incident) = {}) =>
          /\ result.search_terms = <<>>
          /\ result.logs.results = <<>>
    /\ \A name \in KeywordSearches :
          (Returned(name) /\ op.keywords = <<>>) => result = <<>>
    /\ (Returned("search_similar") /\ op.incident_keywords = <<>>) => result = <<>>
    /\ (Returned("gather") /\ op.parsed_incident.keywords = <<>>) =>
          /\ result.historical_cases.similar_cases = <<>>
          /\ result.knowledge_base.articles = <<>>
          /\ result.knowledge_base.procedures = <<>>

C11_Witness ==
    /\ Returned("gather")
    /\ _get_search_terms(op.parsed_incident) = {}
    /\ op.parsed_incident.keywords = <<>>
    /\ SomeLogLine
    /\ cases # <<>>
    /\ result.logs.results = <<>>
    /\ result.historical_cases.similar_cases = <<>>


\* the entries search_logs returns for a service under the search terms
EntriesOfService(search_terms, service) ==
    LET entries == Get(search_logs(search_terms), service, <<>>)
    IN  {entries[j] : j \in DOMAIN entries}

\* an entry of the timeline without the service it was tagged with
Untagged(x) ==
    LogEntry(x.line_num, x.timestamp, x.level, x.component, x.message, x.raw)

\* C12: every entry that get_errors_only, get_warnings_only or build_timeline
\* returns for a service is an entry of the list search_logs returns for that
\* service under the same search terms (a timeline entry is compared without
\* the service name build_timeline adds to it).
C12_ViewsAreSubsetsOfSearch ==
    /\ \A name \in {"get_errors_only", "get_warnings_only"} :
          Returned(name) =>
              \A i \in DOMAIN result : \A j \in DOMAIN result[i].val :
                  result[i].val[j] \in EntriesOfService(op.search_terms, result[i].key)
    /\ Returned("build_timeline") =>
          \A i \in DOMAIN result :
              Untagged(result[i]) \in EntriesOfService(op.search_terms, result[i].service)

C12_Witness ==
    /\ Returned("build_timeline")
    /\ Len(result) >= 2
    /\ \E i, j \in DOMAIN result : result[i].service # result[j].service
    /\ get_errors_only(op.search_terms) # <<>>
    /\ get_errors_only(op.search_terms) # search_logs(op.search_terms)


\* C13: no call of a session changes what was loaded: the log-line cache, the
\* case list, the knowledge-base sections and text, and the contacts by module
\* (the order of the contacts inside each group included) are, after any
\* sequence of calls, the values the constructor loaded from the files.
C13_LoadedCollectionsUnchanged ==
    engine = "ready" =>
        /\ logs_cache = _load_all_logs(files.logs)
        /\ cases = files.case_log.data
        /\ sections = files.knowledge_base.data.sections
        /\ content = files.knowledge_base.data.content
        /\ contacts_by_module = files.contacts.data

C13_Witness ==
    /\ Returned("route_incident")
    /\ op.severity = "HIGH"
    /\ get_contacts_by_module(op.module) # <<>>
    /\ result # get_contacts_by_module(op.module) \o get_contacts_by_module(Management)
    /\ contacts_by_module = files.contacts.data


-----------------------------------------------------------------------------
(* Two correlation passes on one gatherer. A pass is one call of gather; its *)
(* steps are the source searches gather makes, in the order in which the     *)
(* context dict evaluates them. The steps of the two passes interleave; the  *)
(* loaded collections are shared, the locals of gather are the pass's own.   *)

Passes == {1, 2}

\* the context of a pass before its first search
NoContext ==
    [search_terms |-> Absent, logs |-> Absent, historical_cases |-> Absent,
     knowledge_base |-> Absent, escalation_contacts |-> Absent, log_analysis |-> Absent]

\* search_terms as a field of the gatherer, which the other pass overwrites
SharedSearchTerms(p) ==
    LET written == {q \in Passes \ {p} : pc[q] \notin {"return", "search_terms"}}
    IN  IF written # {} THEN result[CHOOSE q \in written : TRUE].search_terms
        ELSE result[p].search_terms

\* search_terms is a local of gather: a pass reads the list it computed
LocalSearchTerms(p) == result[p].search_terms

\* gather is called with a parsed incident
PassCall(p) ==
    /\ pc[p] = "return"
    /\ engine = "ready"
    /\ \E parsed_incident \in GatherArguments :
          op' = [op EXCEPT ![p] = [name |-> "gather", parsed_incident |-> parsed_incident]]
    /\ pc' = [pc EXCEPT ![p] = "search_terms"]
    /\ result' = [result EXCEPT ![p] = NoContext]
    /\ UNCHANGED <<files, loaded>>

\* search_terms = self._get_search_terms(parsed_incident)
PassGetSearchTerms(p) ==
    /\ pc[p] = "search_terms"
    /\ \E search_terms \in ListsOfSet(_get_search_terms(op[p].parsed_incident)) :
          result' = [result EXCEPT ![p].search_terms = search_terms]
    /\ pc' = [pc EXCEPT ![p] = "logs"]
    /\ UNCHANGED <<op, files, loaded>>

\* 'logs': self._search_logs(search_terms)
PassSearchLogs(p) ==
    /\ pc[p] = "logs"
    /\ \E unique_errors \in UniqueErrorsOrders(LocalSearchTerms(p)) :
          result' = [result EXCEPT
                        ![p].logs = _search_logs(LocalSearchTerms(p), unique_errors)]
    /\ pc' = [pc EXCEPT ![p] = "historical_cases"]
    /\ UNCHANGED <<op, files, loaded>>

\* 'historical_cases': self._search_cases(keywords, module)
PassSearchCases(p) ==
    /\ pc[p] = "historical_cases"
    /\ result' = [result EXCEPT
                     ![p].historical_cases =
                         _search_cases(op[p].parsed_incident.keywords,
                                       op[p].parsed_incident.module)]
    /\ pc' = [pc EXCEPT ![p] = "knowledge_base"]
    /\ UNCHANGED <<op, files, loaded>>

\* 'knowledge_base': self._search_kb(keywords)
PassSearchKb(p) ==
    /\ pc[p] = "knowledge_base"
    /\ result' = [result EXCEPT
                     ![p].knowledge_base = _search_kb(op[p].parsed_incident.keywords)]
    /\ pc' = [pc EXCEPT ![p] = "escalation_contacts"]
    /\ UNCHANGED <<op, files, loaded>>

\* 'escalation_contacts': self._get_escalation_contacts(module, severity)
PassGetEscalationContacts(p) ==
    /\ pc[p] = "escalation_contacts"
    /\ result' = [result EXCEPT
                     ![p].escalation_contacts =
                         _get_escalation_contacts(op[p].parsed_incident.module,
                                                  op[p].parsed_incident.severity)]
    /\ contacts_by_module' =
          route_incident_contacts_by_module(op[p].parsed_incident.module,
                                            op[p].parsed_incident.severity)
    /\ pc' = [pc EXCEPT ![p] = "log_analysis"]
    /\ UNCHANGED <<op, files, logs_cache, cases, sections, content, engine>>

\* if context['logs']['results']: context['log_analysis'] = self._analyze_logs(...),
\* and gather returns the context
PassAnalyzeLogs(p) ==
    /\ pc[p] = "log_analysis"
    /\ result' = [result EXCEPT
                     ![p].log_analysis =
                         IF result[p].logs.results # <<>>
                         THEN _analyze_logs(result[p].logs) ELSE Absent]
    /\ pc' = [pc EXCEPT ![p] = "return"]
    /\ UNCHANGED <<op, files, loaded>>

\* every log file is read, the case log has two cases and the knowledge base
\* has sections
PassFiles ==
    {f \in LoadableFiles :
        /\ \A i \in DOMAIN f.logs : f.logs[i].val # Unreadable
        /\ Len(f.case_log.data) = 2
        /\ f.knowledge_base.data.sections # <<>>}

InitPasses ==
    /\ files \in PassFiles
    /\ logs_cache = _load_all_logs(files.logs)
    /\ cases = files.case_log.data
    /\ sections = files.knowledge_base.data.sections
    /\ content = files.knowledge_base.data.content
    /\ contacts_by_module = files.contacts.data
    /\ engine = "ready"
    /\ op = [p \in Passes |-> [name |-> "ContextGatherer"]]
    /\ pc = [p \in Passes |-> "return"]
    /\ result = [p \in Passes |-> NoContext]

NextPasses ==
    \E p \in Passes :
        \/ PassCall(p)
        \/ PassGetSearchTerms(p)
        \/ PassSearchLogs(p)
        \/ PassSearchCases(p)
        \/ PassSearchKb(p)
        \/ PassGetEscalationContacts(p)
        \/ PassAnalyzeLogs(p)

SpecPasses == InitPasses /\ [][NextPasses]_vars

PassReturned(p) == pc[p] = "return" /\ op[p].name = "gather"

\* the order list(set(error_messages)) had in the pass, as its context records it
PassUniqueErrors(p) ==
    IF "analysis" \in DOMAIN result[p].logs
    THEN result[p].logs.analysis.unique_errors ELSE <<>>

\* the Context gather returns for the pass's incident when nothing else runs
Alone(p) == gather(op[p].parsed_incident, result[p].search_terms, PassUniqueErrors(p))

\* C14: when two passes run against the same loaded collections with their
\* source searches interleaved in any order, the Context each pass returns is
\* the Context gather returns for that incident when it runs alone (with the
\* same orders of its sets of search terms and of error messages).
C14_InterleavedPassReturnsItsOwnContext ==
    \A p \in Passes : PassReturned(p) => result[p] = Alone(p)

C14_Witness ==
    /\ PassReturned(1)
    /\ pc[2] = "escalation_contacts"
    /\ op[1].parsed_incident # op[2].parsed_incident
    /\ result[1].logs.results # <<>>
    /\ result[2].logs.results # <<>>
    /\ result[1].logs # result[2].logs
    /\ result[1] = Alone(1)


-----------------------------------------------------------------------------
(* Triage texts: words of the vocabularies of _classify_incident,           *)
(* _identify_module and _estimate_severity, joined by single spaces in any   *)
(* order, so that the words of several rules meet in one text.               *)

MaxWords == 2

MSCU1234567 ==
    <<"M","S","C","U","1","2","3","4","5","6","7">>

TriageWords ==
    <<<<"d","u","p","l","i","c","a","t","e","d">>, <<"n","o","t"," ","a","c","k","n","o","w","l","e","d","g","e","d">>, <<"c","o","n","f","l","i","c","t","i","n","g">>, <<"t","i","m","e","o","u","t">>,
      <<"c","r","e","a","t","i","o","n"," ","f","a","i","l","e","d">>, VESSEL_ERR_4, <<"e","r","r","o","r">>,
      <<"c","o","d","e","c","o">>, <<"b","e","r","t","h">>, <<"c","n","t","r">>, MSCU1234567, <<"b","o","o","k","i","n","g">>, <<"s","q","l">>,
      <<"o","u","t","a","g","e">>, <<"m","u","l","t","i","p","l","e">>, <<"c","o","s","m","e","t","i","c">>>>

WordOrders ==
    UNION {{q \in [1..n -> DOMAIN TriageWords] :
              \A i, j \in 1..n : i # j => q[i] # q[j]} : n \in 0..MaxWords}

TriageTexts ==
    {JoinSpace([i \in DOMAIN q |-> TriageWords[q[i]]]) : q \in WordOrders}

InitTriage ==
    /\ NothingLoaded
    /\ files = <<>>
    /\ pc = "call"
    /\ result = <<>>
    /\ \E t \in TriageTexts : op = [name |-> "parse", text |-> t]

SpecTriage == InitTriage /\ [][NextParser]_vars

-----------------------------------------------------------------------------
(* Claims about the three classifications, under SpecTriage *)

Rule(holds, outcome) == [holds |-> holds, outcome |-> outcome]

\* the outcome of the first rule, in the order of the list, whose condition holds
FirstOutcome(rules) ==
    rules[CHOOSE i \in DOMAIN rules :
             rules[i].holds /\ \A j \in 1..(i - 1) : ~rules[j].holds].outcome

\* how many of the rules before the last have a condition that holds
RulesThatHold(rules) == Cardinality({i \in 1..(Len(rules) - 1) : rules[i].holds})

StartsWith(word) == Take(op.text, Len(word)) = word

TypeRules ==
    <<Rule(TextHasAny(DuplicateWords), "duplicate_entry"),
      Rule(TextHasAny(StuckWords), "stuck_process"),
      Rule(TextHasAny(InconsistencyWords), "data_inconsistency"),
      Rule(TextHasAny(TimeoutWords), "timeout"),
      Rule(TextHasAny(CreationWords), "creation_failure"),
      Rule("error_code" \in DOMAIN result.entities, "error_code_incident"),
      Rule(TextHasAny(GeneralErrorWords), "general_error"),
      Rule(TRUE, "unknown")>>

\* C16: the incident type is the outcome of the first rule, in the order
\* duplicate_entry, stuck_process, data_inconsistency, timeout,
\* creation_failure, error_code_incident (an error_code entity is present),
\* general_error, unknown, whose condition holds, whatever later rules hold
\* too and wherever their phrases stand in the text.
C16_TypeIsFirstRuleThatHolds ==
    Parsed => result.incident_type = FirstOutcome(TypeRules)

C16_Witness ==
    /\ Parsed
    /\ StartsWith(<<"t","i","m","e","o","u","t">>)
    /\ TextHasAny(StuckWords)
    /\ RulesThatHold(TypeRules) = 2
    /\ result.incident_type = "stuck_process"

ModuleRules ==
    <<Rule(TextHasAny(EdiWords), "EDI/API"),
      Rule(TextHasAny(VesselWords), "Vessel"),
      Rule("container" \in DOMAIN result.entities \/ TextHasAny(ContainerWords),
           "Container"),
      Rule(TextHasAny(BookingWords), "Booking"),
      Rule(TextHasAny(DatabaseWords), "Database"),
      Rule(TRUE, "General")>>

\* C17: the module is the outcome of the first rule, in the order EDI/API,
\* Vessel, Container (a container entity or container vocabulary), Booking,
\* Database, General, whose condition holds; a text with a container entity
\* and vessel vocabulary, and no EDI vocabulary, is Vessel, not Container.
C17_ModuleIsFirstRuleThatHolds ==
    Parsed =>
        /\ result.module = FirstOutcome(ModuleRules)
        /\ ("container" \in DOMAIN result.entities /\ TextHasAny(VesselWords)
                /\ ~TextHasAny(EdiWords)) => result.module = "Vessel"

C17_Witness ==
    /\ Parsed
    /\ StartsWith(MSCU1234567)
    /\ HasEntity("container", MSCU1234567)
    /\ TextHasAny(VesselWords)
    /\ ~TextHasAny(EdiWords)
    /\ result.module = "Vessel"

SeverityRules ==
    <<Rule(TextHasAny(CriticalWords), "CRITICAL"),
      Rule(TextHasAny(HighWords), "HIGH"),
      Rule(TextHasAny(LowWords), "LOW"),
      Rule(TRUE, "MEDIUM")>>

\* C18: the severity is CRITICAL when an urgent or outage word occurs, else
\* HIGH when a high-severity word occurs, else LOW when a minor or cosmetic
\* word occurs, else MEDIUM; a text with a CRITICAL word and a LOW word is
\* CRITICAL.
C18_SeverityIsFirstRuleThatHolds ==
    Parsed =>
        /\ result.severity = FirstOutcome(SeverityRules)
        /\ (TextHasAny(CriticalWords) /\ TextHasAny(LowWords)) =>
               result.severity = "CRITICAL"

C18_Witness ==
    /\ Parsed
    /\ StartsWith(<<"c","o","s","m","e","t","i","c">>)
    /\ TextHasAny(LowWords)
    /\ TextHasAny(CriticalWords)
    /\ result.severity = "CRITICAL"


-----------------------------------------------------------------------------
(* Knowledge-base documents: headings with one paragraph each, or paragraphs *)
(* without any heading, and the keyword lists searched in them.              *)

MaxSections == 2

SectionEdi == Section(<<"E","D","I"," ","s","t","u","c","k"," ","m","e","s","s","a","g","e","s">>, <<"S","t","e","p"," ","1","."," ","r","e","s","e","n","d"," ","t","h","e"," ","m","e","s","s","a","g","e">>)

SectionDuplicate == Section(<<"D","u","p","l","i","c","a","t","e"," ","c","o","n","t","a","i","n","e","r","s">>, <<"R","e","m","o","v","e"," ","t","h","e"," ","d","u","p","l","i","c","a","t","e"," ","r","e","c","o","r","d">>)

SectionVessel == Section(<<"V","e","s","s","e","l"," ","a","d","v","i","c","e">>, <<"A","s","k"," ","t","h","e"," ","v","e","s","s","e","l"," ","t","e","a","m">>)

KbSections == {SectionEdi, SectionDuplicate, SectionVessel}

\* '\n'.join of the paragraphs: each title and each content is one paragraph
RECURSIVE JoinParagraphs(_)
JoinParagraphs(ss) ==
    IF ss = <<>> THEN <<>>
    ELSE ss[1].title \o <<"\n">> \o ss[1].content
            \o (IF Len(ss) = 1 THEN <<>> ELSE <<"\n">> \o JoinParagraphs(Tail(ss)))

\* what _load_document leaves in sections and content
KbDocuments ==
    {[sections |-> ss, content |-> JoinParagraphs(ss)] :
        ss \in SeqsUpTo(KbSections, MaxSections)}
    \cup {KbWithoutSections}

KbKeywords == {<<"E","D","I">>, <<"d","u","p","l","i","c","a","t","e">>, <<"t","h","e">>, <<"v","e","s","s","e","l">>, <<"t","i","m","e","o","u","t">>}

InitKb ==
    /\ logs_cache = <<>>
    /\ cases = <<>>
    /\ \E doc \in KbDocuments : sections = doc.sections /\ content = doc.content
    /\ contacts_by_module = <<>>
    /\ engine = "none"
    /\ files = <<>>
    /\ pc = "call"
    /\ result = <<>>
    /\ \E ks \in SeqsUpTo(KbKeywords, MaxKeywords) :
          op = [name |-> "KnowledgeBaseParser.search_by_keywords", keywords |-> ks]

NextKb == KnowledgeBaseSearchByKeywords

SpecKb == InitKb /\ [][NextKb]_vars

-----------------------------------------------------------------------------
(* Claims about KnowledgeBaseParser, under SpecKb *)

KbSearched == pc = "return" /\ op.name = "KnowledgeBaseParser.search_by_keywords"

\* how many keywords of the list occur, in lower case, in the text
KeywordsFound(keywords, text) ==
    Cardinality({i \in DOMAIN keywords : Contains(text, Lower(keywords[i]))})

\* the lower-cased title and body of a section, with a space between
TitleAndBody(section) == Lower(section.title) \o <<" ">> \o Lower(section.content)

\* the loaded sections in which a keyword occurs, in section order
MatchingSections(keywords) ==
    LET Found(section) == KeywordsFound(keywords, TitleAndBody(section)) > 0
    IN  SelectSeq(sections, Found)

\* C21: for a non-empty keyword list K, every match of
\* KnowledgeBaseParser.search_by_keywords has relevance (number of keywords of
\* K found in the lower-cased title and body) / |K|, within [0, 1], and
\* matched_keywords within K; the matches are the sections with a keyword, by
\* relevance descending, ties in section order; without sections the whole
\* document is scored as one section.
C21_RelevanceIsFoundOverQuery ==
    (KbSearched /\ op.keywords # <<>>) =>
        /\ \A i \in DOMAIN result :
              /\ Range(result[i].matched_keywords) \subseteq Range(op.keywords)
              /\ ~FracLess(result[i].relevance, Div(0, 1))
              /\ ~FracLess(Div(1, 1), result[i].relevance)
        /\ \A i, j \in DOMAIN result :
              i < j => ~FracLess(result[i].relevance, result[j].relevance)
        /\ sections # <<>> =>
              LET matching == MatchingSections(op.keywords)
              IN  /\ Len(result) = Len(matching)
                  /\ \E from \in Arrangements(Len(matching)) :
                        /\ \A i \in DOMAIN result :
                              /\ result[i].section_title = matching[from[i]].title
                              /\ result[i].content = matching[from[i]].content
                              /\ result[i].relevance.den > 0
                              /\ FracEq(result[i].relevance,
                                        Div(KeywordsFound(op.keywords,
                                                          TitleAndBody(matching[from[i]])),
                                            Len(op.keywords)))
                        /\ \A i, j \in DOMAIN result :
                              (i < j /\ FracEq(result[i].relevance, result[j].relevance))
                                  => from[i] < from[j]
        /\ sections = <<>> =>
              IF KeywordsFound(op.keywords, Lower(content)) = 0 THEN result = <<>>
              ELSE /\ Len(result) = 1
                   /\ result[1].content = content
                   /\ result[1].relevance.den > 0
                   /\ FracEq(result[1].relevance,
                             Div(KeywordsFound(op.keywords, Lower(content)),
                                 Len(op.keywords)))

\* two different sections of equal relevance below 1, found by their titles
C21_Witness ==
    /\ KbSearched
    /\ Len(op.keywords) = 2
    /\ Len(result) = 2
    /\ result[1] # result[2]
    /\ FracEq(result[1].relevance, result[2].relevance)
    /\ FracLess(result[1].relevance, Div(1, 1))
    /\ result[1].section_title = sections[1].title


-----------------------------------------------------------------------------
(* Texts that mention entities, some of them more than once: mentions joined *)
(* by single spaces, the same mention allowed again.                         *)

MaxMentions == 2

TCK == <<"T","C","K">>

Mentions ==
    {MSCU1234567, <<"m","s","c","u","1","2","3","4","5","6","7">>, CMAU0000020,
     <<"R","E","F","-","I","F","T","-","0","0","0","7"," ","T","C","K","-","1","2","3","4","5","6">>, <<"R","E","F","-","1">>,
     VESSEL_ERR_4, <<"D","B","_","E","R","R","-","2"," ","V","E","S","S","E","L","_","E","R","R","_","4">>,
     <<"j","e","n","@","p","s","a",".","c","o","m">>, <<"B","K","-","7","7">>, <<"M","V"," ","E","V","E","R"," ","G","I","V","E","N","/","1","2","A">>, <<"h","e","l","l","o">>}

MentionTexts == {JoinSpace(q) : q \in SeqsUpTo(Mentions, MaxMentions)}

InitEntities ==
    /\ NothingLoaded
    /\ files = <<>>
    /\ pc = "call"
    /\ result = <<>>
    /\ \E t \in MentionTexts : op = [name |-> "parse", text |-> t]

SpecEntities == InitEntities /\ [][NextParser]_vars

-----------------------------------------------------------------------------
(* Claims about _extract_entities, under SpecEntities *)

\* the position of the first match with the value among the matches
FirstMatch(matches, value) ==
    CHOOSE i \in DOMAIN matches :
        matches[i] = value /\ \A j \in 1..(i - 1) : matches[j] # value

\* C22: the mapping _extract_entities returns has a key for an entity type
\* only if the pattern of the type matched in the text, and the list of a key
\* has no value twice and has the matched values in the order in which each
\* was matched first.
C22_EntitiesAreFirstOccurrences ==
    Parsed =>
        \A t \in DOMAIN result.entities :
            LET matches == EntityMatches(t, op.text)
                values == result.entities[t]
            IN  /\ matches # <<>>
                /\ \A i, j \in DOMAIN values : i # j => values[i] # values[j]
                /\ Range(values) = Range(matches)
                /\ \A i, j \in DOMAIN values :
                      i < j => FirstMatch(matches, values[i]) < FirstMatch(matches, values[j])

\* REF is matched, then TCK, then REF again; other types have no key
C22_Witness ==
    /\ Parsed
    /\ EntityMatches("reference", op.text) = <<REF, TCK, REF>>
    /\ result.entities["reference"] = <<REF, TCK>>
    /\ DOMAIN result.entities = {"reference"}


-----------------------------------------------------------------------------
(* Claims about the Context of gather, under SpecSession *)

\* C23: in the Context gather returns, the log-pattern analysis is present
\* exactly when the log search returned a non-empty results mapping; with
\* empty results, and so with no search terms, it is absent.
C23_AnalysisIffResults ==
    Returned("gather") =>
        /\ (result.log_analysis # Absent) <=> (result.logs.results # <<>>)
        /\ result.search_terms = <<>> =>
              (result.logs.results = <<>> /\ result.log_analysis = Absent)

C23_Witness ==
    /\ Returned("gather")
    /\ result.logs.results # <<>>
    /\ result.log_analysis # Absent
    /\ result.log_analysis.error_count > 0

\* the other side: search terms that no loaded line contains
C23_WitnessNoResults ==
    /\ Returned("gather")
    /\ result.search_terms # <<>>
    /\ SomeLogLine
    /\ result.logs.results = <<>>
    /\ result.log_analysis = Absent


\* the values of the incident's entity mapping
EntityValues(parsed_incident) ==
    UNION {{parsed_incident.entities[k][i] : i \in DOMAIN parsed_incident.entities[k]} :
              k \in DOMAIN parsed_incident.entities}

\* the terms the log search of the Context was made with: the results hold
\* only lines with one of these terms
LogSearchUsed(search_terms) ==
    result.logs.results # <<>> =>
        /\ result.logs.results = search_logs(search_terms)
        /\ \A i \in DOMAIN result.logs.results :
              \A j \in DOMAIN result.logs.results[i].val :
                  \E k \in DOMAIN search_terms :
                      Contains(result.logs.results[i].val[j].raw, search_terms[k])

\* C24: the search terms gather uses for the log search are exactly the
\* values of the incident's entity mapping, each once, and a keyword of the
\* incident is among them only when it is also an entity value.
C24_SearchTermsAreEntityValues ==
    Returned("gather") =>
        /\ Range(result.search_terms) = EntityValues(op.parsed_incident)
        /\ \A i, j \in DOMAIN result.search_terms :
              i # j => result.search_terms[i] # result.search_terms[j]
        /\ \A i \in DOMAIN op.parsed_incident.keywords :
              op.parsed_incident.keywords[i] \in Range(result.search_terms)
                  => op.parsed_incident.keywords[i] \in EntityValues(op.parsed_incident)
        /\ LogSearchUsed(result.search_terms)

C24_Witness ==
    /\ Returned("gather")
    /\ Len(result.search_terms) = 2
    /\ Cardinality(DOMAIN op.parsed_incident.entities) = 2
    /\ op.parsed_incident.keywords # <<>>
    /\ result.logs.results # <<>>


-----------------------------------------------------------------------------
(* The views of a log search on caches in which lines repeat: the same line  *)
(* in two services gives equal timestamps and equal error messages.          *)

MaxViewLines == 2

ViewLines == {LineError, LineWarn, LineNoGrammar}

\* the last service holds up to MaxViewLines lines, the others one line fewer
ViewCaches ==
    {[i \in DOMAIN Services |-> Item(Services[i], f[i])] :
        f \in {g \in [DOMAIN Services -> SeqsUpTo(ViewLines, MaxViewLines)] :
                  \A i \in DOMAIN Services :
                      i < Len(Services) => Len(g[i]) < MaxViewLines}}

ViewTerms == {<<>>, <<CMAU0000020>>, <<REF_IFT_0007, CMAU0000020>>}

InitViews ==
    /\ logs_cache \in ViewCaches
    /\ cases = <<>>
    /\ sections = <<>>
    /\ content = <<>>
    /\ contacts_by_module = <<>>
    /\ engine = "none"
    /\ files = <<>>
    /\ pc = "call"
    /\ result = <<>>
    /\ \E ts \in ViewTerms : \E n \in {"build_timeline", "analyze_patterns"} :
          op = [name |-> n, search_terms |-> ts]

NextViews == BuildTimeline \/ AnalyzePatterns

SpecViews == InitViews /\ [][NextViews]_vars

-----------------------------------------------------------------------------
(* Claims about the views, under SpecViews *)

\* the timestamp of an entry as the sort compares it: '' when it is absent
TimestampOrEmpty(x) == IF x.timestamp = None THEN <<>> ELSE x.timestamp

\* the position of the service among the keys of the search result
ServicePosition(results, service) ==
    CHOOSE i \in DOMAIN results : results[i].key = service

\* a stands before b in service-then-line order
ServiceThenLine(results, a, b) ==
    \/ ServicePosition(results, a.service) < ServicePosition(results, b.service)
    \/ a.service = b.service /\ a.line_num < b.line_num

\* the timeline has every entry of the results once, by timestamp
SortedSearch(results, timeline) ==
    /\ Len(timeline) = TotalEntries(results)
    /\ \A i, j \in DOMAIN timeline : i # j => timeline[i] # timeline[j]
    /\ \A i \in DOMAIN timeline :
          \E k \in DOMAIN results :
              /\ results[k].key = timeline[i].service
              /\ \E n \in DOMAIN results[k].val : results[k].val[n] = Untagged(timeline[i])
    /\ \A i, j \in DOMAIN timeline :
          i < j =>
              /\ ~StrLess(TimestampOrEmpty(timeline[j]), TimestampOrEmpty(timeline[i]))
              /\ timeline[j].timestamp = None => timeline[i].timestamp = None
              /\ TimestampOrEmpty(timeline[i]) = TimestampOrEmpty(timeline[j])
                    => ServiceThenLine(results, timeline[i], timeline[j])

\* C25: build_timeline returns every entry of every service's search result
\* exactly once, by timestamp string ascending, every entry without a
\* timestamp before every entry with one, and entries of equal timestamp in
\* service-then-line order.
C25_TimelineIsSortedSearch ==
    Returned("build_timeline") => SortedSearch(search_logs(op.search_terms), result)

\* an entry without a timestamp that the sort moved to the front, and two
\* entries of equal timestamp from two services
C25_Witness ==
    /\ Returned("build_timeline")
    /\ Len(result) = 3
    /\ result[1].timestamp = None
    /\ result[1].line_num = 2
    /\ result[1].service = "edi_advice"
    /\ \E i \in DOMAIN result :
          /\ i < Len(result)
          /\ result[i].timestamp # None
          /\ result[i].timestamp = result[i + 1].timestamp
          /\ result[i].service # result[i + 1].service

RECURSIVE SumOfValues(_)
SumOfValues(dict) ==
    IF dict = <<>> THEN 0 ELSE dict[1].val + SumOfValues(Tail(dict))

PatternsAgree(results, errors, warnings, analysis) ==
    /\ analysis.total_entries = SumOfValues(analysis.level_counts)
    /\ analysis.total_entries = SumOfValues(analysis.service_counts)
    /\ Range(analysis.affected_services) = Keys(results)
    /\ Len(analysis.affected_services) = Cardinality(Keys(results))
    /\ analysis.error_count = TotalEntries(errors)
    /\ analysis.warning_count = TotalEntries(warnings)
    /\ Cardinality(Range(analysis.unique_errors)) = Len(analysis.unique_errors)
    /\ Len(analysis.unique_errors) <= analysis.error_count

\* C28: the aggregates analyze_patterns returns agree with the search under the
\* same terms: total_entries is the sum of level_counts and the sum of
\* service_counts, affected_services are the keys of search_logs, error_count
\* and warning_count are the numbers of entries get_errors_only and
\* get_warnings_only return, and unique_errors has no duplicates and at most
\* error_count elements.
C28_PatternsAgreeWithSearch ==
    Returned("analyze_patterns") =>
        PatternsAgree(search_logs(op.search_terms), get_errors_only(op.search_terms),
                      get_warnings_only(op.search_terms), result)

\* two services, the same ERROR line in both (one unique error of two) and a
\* WARN line
C28_Witness ==
    /\ Returned("analyze_patterns")
    /\ result.total_entries = 3
    /\ Len(result.affected_services) = 2
    /\ result.error_count = 2
    /\ result.warning_count = 1
    /\ Len(result.unique_errors) = 1

-----------------------------------------------------------------------------
(* The log analysis of gather (analyzers/context_gatherer.py) on logs long   *)
(* enough to reach its thresholds: three services, each log a WARN line      *)
(* followed by ERROR lines, the first log longer than the others.            *)

MaxAnalysisLines == 5

MaxOtherLines == 2

\* three of the services of LOG_FILES, in its order
AnalysisServices == <<"api_event", "container", "edi_advice">>

AnalysisLine(i) ==
    IF i = 1 THEN LineWarn ELSE IF i % 2 = 0 THEN LineError ELSE LineEdiError

AnalysisLog(n) == [i \in 1..n |-> AnalysisLine(i)]

AnalysisCaches ==
    {[i \in DOMAIN AnalysisServices |-> Item(AnalysisServices[i], AnalysisLog(n[i]))] :
        n \in {m \in [DOMAIN AnalysisServices -> 0..MaxAnalysisLines] :
                  \A i \in DOMAIN AnalysisServices : i > 1 => m[i] <= MaxOtherLines}}

AnalysisTerms == {<<>>, <<REF_IFT_0007, CMAU0000020>>}

InitAnalysis ==
    /\ logs_cache \in AnalysisCaches
    /\ cases = <<>>
    /\ sections = <<>>
    /\ content = <<>>
    /\ contacts_by_module = <<>>
    /\ engine = "none"
    /\ files = <<>>
    /\ pc = "call"
    /\ result = <<>>
    /\ \E ts \in AnalysisTerms : op = [name |-> "gather", search_terms |-> ts]

\* context = {..., 'logs': self._search_logs(search_terms), ..., 'log_analysis': None}
GatherSearchLogs ==
    /\ pc = "call"
    /\ op.name = "gather"
    /\ \E unique_errors \in UniqueErrorsOrders(op.search_terms) :
          result' = [logs         |-> _search_logs(op.search_terms, unique_errors),
                     log_analysis |-> Absent]
    /\ pc' = "log_analysis"
    /\ UNCHANGED <<op, files, loaded>>

\* if context['logs']['results']: context['log_analysis'] = self._analyze_logs(...)
GatherAnalyzeLogs ==
    /\ pc = "log_analysis"
    /\ op.name = "gather"
    /\ result' = [result EXCEPT
                     !.log_analysis =
                         IF result.logs.results # <<>>
                         THEN _analyze_logs(result.logs) ELSE Absent]
    /\ pc' = "return"
    /\ UNCHANGED <<op, files, loaded>>

NextAnalysis == GatherSearchLogs \/ GatherAnalyzeLogs

SpecAnalysis == InitAnalysis /\ [][NextAnalysis]_vars

\* the entries of level ERROR among the entries found for a service
ErrorEntriesOf(results, service) ==
    {e \in Range(Get(results, service, <<>>)) : e.level = ERROR}

NumberOfErrorEntries(results) ==
    LET IsError(e) == e.level = ERROR
    IN  Len(SelectSeq(Flatten(Values(results)), IsError))

Flagged(log_analysis, flag) == flag \in Range(log_analysis.patterns)

AnalysisByThreshold(logs, log_analysis) ==
    /\ \A service \in Keys(logs_cache) :
          Cardinality({i \in DOMAIN log_analysis.error_messages :
                          log_analysis.error_messages[i].service = service}) <= 3
    /\ \A i \in DOMAIN log_analysis.error_messages :
          LET m == log_analysis.error_messages[i]
          IN  \E e \in ErrorEntriesOf(logs.results, m.service) :
                  m.timestamp = e.timestamp /\ m.message = e.message
    /\ Flagged(log_analysis, "Multiple errors detected")
          <=> NumberOfErrorEntries(logs.results) > 5
    /\ Flagged(log_analysis, "Multiple services affected")
          <=> Cardinality(Keys(logs.results)) > 2
    /\ Flagged(log_analysis, "Errors occurred in sequence")
          <=> Len(logs.timeline) > 3

AnalysisDerived ==
    pc = "return" /\ op.name = "gather" /\ result.logs.results # <<>>

\* C26: a derived log analysis lists at most three error messages for a
\* service, each the timestamp and message of an ERROR entry found for that
\* service, and it carries 'Multiple errors detected' exactly when more than 5
\* ERROR entries were found, 'Multiple services affected' exactly when more
\* than 2 services have entries, and 'Errors occurred in sequence' exactly when
\* the timeline has more than 3 events.
C26_AnalysisByThreshold ==
    AnalysisDerived => AnalysisByThreshold(result.logs, result.log_analysis)

\* four ERROR entries in one service of which three are listed, six ERROR
\* entries in three services: every flag
C26_Witness ==
    /\ AnalysisDerived
    /\ Len(Get(result.logs.errors, "api_event", <<>>)) = 4
    /\ Cardinality({i \in DOMAIN result.log_analysis.error_messages :
                      result.log_analysis.error_messages[i].service = "api_event"}) = 3
    /\ NumberOfErrorEntries(result.logs.results) = 6
    /\ result.log_analysis.patterns
          = <<"Multiple errors detected", "Multiple services affected",
              "Errors occurred in sequence">>

-----------------------------------------------------------------------------
(* Further claims about EscalationContactsParser, under SpecContacts *)

\* C27: every contact route_incident returns is a contact of the group looked
\* up for the module or, for HIGH and CRITICAL, of the group looked up for
\* 'Management', and no contact is in the result more than once, also when the
\* module looked up is Management itself and the severity is HIGH or CRITICAL.
C27_RoutedIsUnionWithoutRepeats ==
    Routed =>
        /\ Range(result) \subseteq
              Range(get_contacts_by_module(op.module))
                 \cup (IF op.severity \in {"HIGH", "CRITICAL"}
                       THEN Range(get_contacts_by_module(Management)) ELSE {})
        /\ Cardinality(Range(result)) = Len(result)

-----------------------------------------------------------------------------
(* A further claim about search_logs, under SpecLogs *)

\* the 1-based positions of the lines that hold a search term
MatchingPositions(log_lines, search_terms) ==
    {n \in DOMAIN log_lines :
        \E k \in DOMAIN search_terms : Contains(log_lines[n], search_terms[k])}

OneEntryPerMatchingLine(log_lines, search_terms, entries) ==
    /\ Len(entries) = Cardinality(MatchingPositions(log_lines, search_terms))
    /\ \A j \in DOMAIN entries :
          /\ entries[j].line_num \in MatchingPositions(log_lines, search_terms)
          /\ entries[j].raw = Strip(log_lines[entries[j].line_num])
          /\ entries[j].level \in {DEBUG, INFO, WARN, ERROR, UNKNOWN}
    /\ \A j \in DOMAIN entries :
          j < Len(entries) => entries[j].line_num < entries[j + 1].line_num

\* C29: for each loaded service, search_logs returns as many entries as the
\* service has lines holding a search term (none when the service is not a
\* key); the line_num of an entry is the 1-based position of its line among the
\* loaded lines, line_num increases strictly along the list, and the level of
\* an entry is DEBUG, INFO, WARN, ERROR or UNKNOWN.
C29_OneEntryPerMatchingLine ==
    Searched =>
        \A i \in DOMAIN logs_cache :
            OneEntryPerMatchingLine(logs_cache[i].val, op.search_terms,
                                    Get(result, logs_cache[i].key, <<>>))

\* a service whose first line holds no term and whose second line does: one
\* entry, of line 2; and a service with two entries
C29_Witness ==
    /\ Searched
    /\ Len(result) = 2
    /\ Len(result[1].val) = 1
    /\ result[1].val[1].line_num = 2
    /\ Len(result[2].val) = 2
    /\ result[2].val[2].level = UNKNOWN

\* the positions of the loaded module names that hold the key, in lower case
NamesHolding(module) ==
    {i \in DOMAIN contacts_by_module :
        Contains(Lower(contacts_by_module[i].key), Lower(module))}

\* C30: get_contacts_by_module returns the contacts of one group, the first
\* loaded module name that holds the key in lower case, and the empty list
\* when no name holds it; no contact of a later name that holds the key is
\* returned.
C30_LookupIsFirstNameHoldingKey ==
    LookedUp =>
        IF NamesHolding(op.module) = {} THEN result = <<>>
        ELSE \E i \in NamesHolding(op.module) :
                /\ \A j \in NamesHolding(op.module) : i <= j
                /\ result = contacts_by_module[i].val
                /\ \A j \in NamesHolding(op.module) :
                      j # i => Range(contacts_by_module[j].val) \cap Range(result) = {}

\* 'vessel' looked up with 'Vessel' loaded before 'Vessel Registry'
C30_Witness ==
    /\ LookedUp
    /\ op.module = Lower(Vessel)
    /\ Cardinality(NamesHolding(Vessel)) = 2
    /\ result = GroupVessel.val

====
